---------------------------- MODULE Spec2Model ----------------------------
(***************************************************************************)
(* A model of the dgit daemon: a Git smart-HTTP remote whose refs and      *)
(* objects live in a ledger contract and a blob store.                     *)
(*                                                                         *)
(* The module holds several specifications over one set of variables; each *)
(* specification drives one part of the daemon and leaves the variables of *)
(* the other parts at their idle values:                                   *)
(*   SpecRegistry  concurrent create-repo requests over the registry       *)
(*                 (crates/daemon/src/state.rs, handlers/create_repo.rs)   *)
(*   SpecPump      one stateless-RPC invocation of the Git executable: the *)
(*                 handler, the child and the two pipes between them       *)
(*                 (handlers/git_receive_pack.rs, git_upload_pack.rs)      *)
(*   SpecWrite     one add_refs or add_objects call against the ledger     *)
(*                 (crates/onchain/src/contract_interaction.rs)            *)
(*   SpecFetch     one info/refs or upload-pack request against the    *)
(*                 ledger of a registered repository                       *)
(*                 (handlers/git_info_refs.rs, git_upload_pack.rs)         *)
(*   SpecPush      one receive-pack request, its ledger writes and the     *)
(*                 ledger settling them (handlers/git_receive_pack.rs)     *)
(*   SpecWriteLive SpecWrite with the call polled to its end               *)
(*   SpecMaterialize  one upload-pack or receive-pack request up to the    *)
(*                 exit of its Git executable, on larger ledgers           *)
(*   SpecScratch   two requests in flight at once, each with its scratch   *)
(*                 directory (the three protocol handlers)                 *)
(*   SpecBlob      one upload to and one download from the blob store      *)
(*                 (crates/onchain/src/ipfs.rs)                            *)
(*   SpecServe     one request of any kind, from arrival to the HTTP       *)
(*                 response (all handlers, handlers/role_management.rs)    *)
(*   SpecBlobLive  SpecBlob with every call run to its end                 *)
(*   SpecLock      create-repo requests and an upload-pack request with    *)
(*                 the registry mutex taken and dropped in its own steps   *)
(*   SpecRefOrder  one request of each protocol handler on ledgers with    *)
(*                 two entries for one ref name                            *)
(*   SpecRace      two receive-pack requests on one repository at once     *)
(*   SpecPath      one ledger object from get_object_path to the harvest   *)
(***************************************************************************)
EXTENDS Integers, Sequences, FiniteSets, TLC

\* Option::None of a string, of a ledger handle, and a result not yet produced
None == "none"
NoContract == <<>>
NoResult == [ok |-> FALSE, msg |-> <<>>, value |-> <<>>]

Ok(value) == [ok |-> TRUE, msg |-> <<>>, value |-> value]
Err(msg) == [ok |-> FALSE, msg |-> msg, value |-> <<>>]

\* the HTTP response of a request: none before its handler has returned
NoResponse == [status |-> 0, content_type |-> "", body |-> <<>>]
TextPlain == "text/plain; charset=utf-8"
Json == "application/json"

\* a wrapper that answers an error with 500 Internal Server Error
into_response_internal_error(content_type, result) ==
    IF result.ok
    THEN [status |-> 200, content_type |-> content_type,
          body |-> result.value]
    ELSE [status |-> 500, content_type |-> TextPlain, body |-> result.msg]

\* the match of every wrapper: Ok(response) is the whole body under the
\* handler's content type, Err(e) is (StatusCode::BAD_REQUEST, e.to_string())
into_response(content_type, result) ==
    IF result.ok
    THEN [status |-> 200, content_type |-> content_type,
          body |-> result.value]
    ELSE [status |-> 400, content_type |-> TextPlain, body |-> result.msg]

(***************************************************************************)
(* Text.  An error message or a request body is a sequence of tokens (a    *)
(* word, a separator, a hash); Contains is substring search at token       *)
(* granularity.                                                            *)
(***************************************************************************)
Contains(msg, part) ==
    \E i \in 1..(Len(msg) - Len(part) + 1) :
        SubSeq(msg, i, i + Len(part) - 1) = part

StartsWith(s, prefix) ==
    /\ Len(s) >= Len(prefix)
    /\ SubSeq(s, 1, Len(prefix)) = prefix

VARIABLES
    \* ContractStateInner.contracts: repository name -> ledger handle
    contracts,
    \* ContractState.inner, the mutex around the map: who holds its guard
    inner,
    \* the ledger contracts deployed so far (the deployer hands out addresses)
    deployed,
    \* one create-repo request per slot: its position, its path parameter,
    \* the handle it deployed, the result of handle_create_repo, the
    \* response create_repo makes of it
    crPc, crRepo, crContract, crResult, crHttp,
    \* one stateless-RPC invocation: the handler's position, the part of
    \* body_bytes not yet written, the bytes in the stdin and stdout pipes,
    \* the child's position, the bytes the child has written, the response
    \* read so far (all in chunks)
    pumpPc, toWrite, stdinPipe, stdoutPipe, childPc, childWritten, response,
    \* the ledger contract of repository "demo": its refs and objects arrays,
    \* and the transactions the daemon has submitted to it
    refs, objects, txs,
    \* per request, the add_refs / add_objects call in progress
    wc,
    \* the content ids the blob store holds
    blobs,
    \* the blocks the blob store's node holds, and the load_to_ipfs or
    \* download_from_ipfs call in progress
    node, bc,
    \* one object of the ledger on its way through a scratch repository: its
    \* hash, the path it is stored at, the hash the harvest makes of the path
    loose,
    \* per request, the protocol handler's state: its inputs, its position,
    \* its scratch repository, the subprocesses it ran, its locals, its result
    hs

registryVars ==
    <<contracts, inner, deployed, crPc, crRepo, crContract, crResult, crHttp>>
pumpVars ==
    <<pumpPc, toWrite, stdinPipe, stdoutPipe, childPc, childWritten, response>>

ledgerVars == <<refs, objects, txs>>
blobVars == <<node, bc>>

vars == <<registryVars, pumpVars, ledgerVars, wc, blobs, hs, blobVars, loose>>

\* what the actions of one part leave alone
nonRegistryVars == <<pumpVars, ledgerVars, wc, blobs, hs, blobVars, loose>>
nonPumpVars == <<registryVars, ledgerVars, wc, blobs, hs, blobVars, loose>>
nonLedgerVars == <<registryVars, pumpVars, blobs, hs, blobVars, loose>>
nonHandlerVars == <<registryVars, pumpVars, blobVars, loose>>
nonBlobVars == <<registryVars, pumpVars, ledgerVars, wc, blobs, hs, loose>>

(***************************************************************************)
(* Registry and create-repo                                                *)
(***************************************************************************)
RepoNames == {"demo", "other"}

\* create-repo request slots; each slot serves one request
MaxCreateReqs == 3
CreateReqs == 1..MaxCreateReqs

\* H160: the byte length of a contract address
AddrLen == 20

HexDigits == <<"0", "1", "2", "3", "4", "5", "6", "7",
               "8", "9", "a", "b", "c", "d", "e", "f">>

\* the address the deployer gives its k-th contract, as bytes
AddressBytes(k) == [i \in 1..AddrLen |-> IF i = AddrLen THEN k ELSE 0]

\* format!("{:02x}", byte)
Hex02(byte) == <<HexDigits[(byte \div 16) + 1], HexDigits[(byte % 16) + 1]>>

RECURSIVE HexOf(_)
HexOf(bytes) ==
    IF bytes = <<>> THEN <<>>
    ELSE Hex02(Head(bytes)) \o HexOf(Tail(bytes))

\* ContractInteraction::address: "0x" followed by two hex digits per byte
address(contract) == <<"0", "x">> \o HexOf(contract)

ErrAlreadyExists == <<"Repository", "already", "exists">>
ErrDeploy == <<"deploy", "failed">>

\* CreateRepoResponse { repo, address }
CreateRepoResponse(repo, addr) == [repo |-> repo, address |-> addr]

\* ContractState::get_contract: lock, look up, clone, unlock
get_contract(repo) == contracts[repo]

\* ContractState::insert_contract: lock, HashMap::insert, unlock
insert_contract(repo, contract) == [contracts EXCEPT ![repo] = contract]

\* a create-repo request arrives for some name
CreateArrive(r) ==
    /\ crPc[r] = "idle"
    /\ \E repo \in RepoNames : crRepo' = [crRepo EXCEPT ![r] = repo]
    /\ crPc' = [crPc EXCEPT ![r] = "check"]
    /\ UNCHANGED <<contracts, inner, deployed, crContract, crResult, crHttp>>
    /\ UNCHANGED nonRegistryVars

\* a create-repo that deploys without looking the name up first
CreateCheckAlwaysDeploys(r) ==
    /\ crPc[r] = "check"
    /\ crPc' = [crPc EXCEPT ![r] = "deploy"]
    /\ UNCHANGED <<contracts, inner, deployed, crRepo, crContract, crResult,
                   crHttp>>
    /\ UNCHANGED nonRegistryVars

\* handle_create_repo, up to the first await of deploy()
CreateCheck(r) ==
    /\ crPc[r] = "check"
    /\ IF get_contract(crRepo[r]) # NoContract
       THEN /\ crResult' = [crResult EXCEPT ![r] = Err(ErrAlreadyExists)]
            /\ crHttp' = [crHttp EXCEPT ![r] =
                            into_response(Json, Err(ErrAlreadyExists))]
            /\ crPc' = [crPc EXCEPT ![r] = "done"]
       ELSE /\ crPc' = [crPc EXCEPT ![r] = "deploy"]
            /\ UNCHANGED <<crResult, crHttp>>
    /\ UNCHANGED <<contracts, inner, deployed, crRepo, crContract>>
    /\ UNCHANGED nonRegistryVars

\* ContractInteraction::deploy succeeds: a new contract at a fresh address
CreateDeployOk(r) ==
    /\ crPc[r] = "deploy"
    /\ deployed' = deployed + 1
    /\ crContract' = [crContract EXCEPT ![r] = AddressBytes(deployed + 1)]
    /\ crPc' = [crPc EXCEPT ![r] = "insert"]
    /\ UNCHANGED <<contracts, inner, crRepo, crResult, crHttp>>
    /\ UNCHANGED nonRegistryVars

\* a create-repo that registers the name before it knows the deployment's
\* outcome
CreateDeployErrRegistered(r) ==
    /\ crPc[r] = "deploy"
    /\ contracts' = insert_contract(crRepo[r], AddressBytes(0))
    /\ crResult' = [crResult EXCEPT ![r] = Err(ErrDeploy)]
    /\ crHttp' = [crHttp EXCEPT ![r] = into_response(Json, Err(ErrDeploy))]
    /\ crPc' = [crPc EXCEPT ![r] = "done"]
    /\ UNCHANGED <<inner, deployed, crRepo, crContract>>
    /\ UNCHANGED nonRegistryVars

\* ContractInteraction::deploy fails: `?` returns the error
CreateDeployErr(r) ==
    /\ crPc[r] = "deploy"
    /\ crResult' = [crResult EXCEPT ![r] = Err(ErrDeploy)]
    /\ crHttp' = [crHttp EXCEPT ![r] = into_response(Json, Err(ErrDeploy))]
    /\ crPc' = [crPc EXCEPT ![r] = "done"]
    /\ UNCHANGED <<contracts, inner, deployed, crRepo, crContract>>
    /\ UNCHANGED nonRegistryVars

\* handle_create_repo after deploy(): insert_contract, then the response
CreateInsert(r) ==
    /\ crPc[r] = "insert"
    /\ contracts' = insert_contract(crRepo[r], crContract[r])
    /\ LET created == CreateRepoResponse(crRepo[r], address(crContract[r]))
       IN  /\ crResult' = [crResult EXCEPT ![r] = Ok(created)]
           /\ crHttp' = [crHttp EXCEPT ![r] =
                           into_response(Json, Ok(created))]
    /\ crPc' = [crPc EXCEPT ![r] = "done"]
    /\ UNCHANGED <<inner, deployed, crRepo, crContract>>
    /\ UNCHANGED nonRegistryVars

\* The same calls with the mutex in sight: `self.inner.lock().await` waits
\* until no guard is out and takes it; the guard is the local `inner` of
\* get_contract / insert_contract and is dropped when the method returns.
NoHolder == <<>>
CreateHolder(r) == <<"create", r>>
RequestHolder(r) == <<"request", r>>

lock(holder) == inner = NoHolder /\ inner' = holder
unlock(holder) == inner = holder /\ inner' = NoHolder

\* create-repo enters get_contract
CreateCheckLock(r) ==
    /\ crPc[r] = "check"
    /\ lock(CreateHolder(r))
    /\ crPc' = [crPc EXCEPT ![r] = "check_locked"]
    /\ UNCHANGED <<contracts, deployed, crRepo, crContract, crResult, crHttp>>
    /\ UNCHANGED nonRegistryVars

\* a create-repo that keeps the guard until it has inserted
CreateCheckUnlockAfterInsert(r) ==
    /\ crPc[r] = "check_locked"
    /\ IF get_contract(crRepo[r]) # NoContract
       THEN /\ unlock(CreateHolder(r))
            /\ crResult' = [crResult EXCEPT ![r] = Err(ErrAlreadyExists)]
            /\ crHttp' = [crHttp EXCEPT ![r] =
                            into_response(Json, Err(ErrAlreadyExists))]
            /\ crPc' = [crPc EXCEPT ![r] = "done"]
       ELSE /\ crPc' = [crPc EXCEPT ![r] = "deploy"]
            /\ UNCHANGED <<inner, crResult, crHttp>>
    /\ UNCHANGED <<contracts, deployed, crRepo, crContract>>
    /\ UNCHANGED nonRegistryVars

\* get_contract returns to create-repo: the look-up, the guard dropped, and
\* the test of `contract.is_some()`
CreateCheckUnlock(r) ==
    /\ crPc[r] = "check_locked"
    /\ unlock(CreateHolder(r))
    /\ IF get_contract(crRepo[r]) # NoContract
       THEN /\ crResult' = [crResult EXCEPT ![r] = Err(ErrAlreadyExists)]
            /\ crHttp' = [crHttp EXCEPT ![r] =
                            into_response(Json, Err(ErrAlreadyExists))]
            /\ crPc' = [crPc EXCEPT ![r] = "done"]
       ELSE /\ crPc' = [crPc EXCEPT ![r] = "deploy"]
            /\ UNCHANGED <<crResult, crHttp>>
    /\ UNCHANGED <<contracts, deployed, crRepo, crContract>>
    /\ UNCHANGED nonRegistryVars

\* create-repo enters insert_contract
CreateInsertLock(r) ==
    /\ crPc[r] = "insert"
    /\ lock(CreateHolder(r))
    /\ crPc' = [crPc EXCEPT ![r] = "insert_locked"]
    /\ UNCHANGED <<contracts, deployed, crRepo, crContract, crResult, crHttp>>
    /\ UNCHANGED nonRegistryVars

\* insert_contract returns: the insert, the guard dropped, and the response
CreateInsertUnlock(r) ==
    /\ crPc[r] = "insert_locked"
    /\ unlock(CreateHolder(r))
    /\ contracts' = insert_contract(crRepo[r], crContract[r])
    /\ LET created == CreateRepoResponse(crRepo[r], address(crContract[r]))
       IN  /\ crResult' = [crResult EXCEPT ![r] = Ok(created)]
           /\ crHttp' = [crHttp EXCEPT ![r] =
                           into_response(Json, Ok(created))]
    /\ crPc' = [crPc EXCEPT ![r] = "done"]
    /\ UNCHANGED <<deployed, crRepo, crContract>>
    /\ UNCHANGED nonRegistryVars

(***************************************************************************)
(* The ledger and its client                                               *)
(*                                                                         *)
(* A hash, a ref's data and a locator are sequences of characters; a ref   *)
(* name is the sequence of its path components.  The contract itself is    *)
(* not part of the daemon's sources: what a mined transaction does to the  *)
(* refs and objects arrays follows the design's data model (append-only,   *)
(* a new ref is active).  The pusher address of an entry is read by no     *)
(* handler and is left out.                                                *)
(***************************************************************************)
\* request slots; a specification says which of them it drives
Reqs == {1, 2}

\* the length of a SHA-1 in hex
HashLen == 40

Hash(c) == [i \in 1..HashLen |-> c]
HashA == Hash("a")
HashB == Hash("b")
Zeros == Hash("0")

Main == <<"refs/", "heads/", "main">>
TagV1 == <<"refs/", "tags/", "v1">>

Ref(name, data, is_active) ==
    [name |-> name, data |-> data, is_active |-> is_active]
Object(hash, ipfs_url) == [hash |-> hash, ipfs_url |-> ipfs_url]

\* ContractInteraction::get_refs: every tuple of the call's result, in order
get_refs == [i \in 1..Len(refs) |-> Ref(refs[i].name, refs[i].data,
                                         refs[i].is_active)]

\* ContractInteraction::get_objects
get_objects == [i \in 1..Len(objects) |-> Object(objects[i].hash,
                                                  objects[i].ipfs_url)]

\* ContractInteraction::is_object_exist
is_object_exist(hash) == \E i \in 1..Len(objects) : objects[i].hash = hash

\* the contract's addRefs: one active entry appended per name
ContractAddRefs(names, data) ==
    refs \o [i \in 1..Len(names) |-> Ref(names[i], data[i], TRUE)]

\* the contract's addObjects: one entry appended per hash
ContractAddObjects(hashes, ipfs_urls) ==
    objects \o [i \in 1..Len(hashes) |-> Object(hashes[i], ipfs_urls[i])]

\* a submitted transaction is mined: with success its effect is applied,
\* with failure it is reverted
LedgerMine(i, success) ==
    /\ i \in 1..Len(txs)
    /\ txs[i].status = "pending"
    /\ txs' = [txs EXCEPT ![i].status = IF success THEN "success" ELSE "failed"]
    /\ IF success /\ txs[i].op = "add_refs"
       THEN refs' = ContractAddRefs(txs[i].names, txs[i].data)
       ELSE UNCHANGED refs
    /\ IF success /\ txs[i].op = "add_objects"
       THEN objects' = ContractAddObjects(txs[i].names, txs[i].data)
       ELSE UNCHANGED objects
    /\ UNCHANGED <<wc, nonLedgerVars>>

\* a submitted transaction leaves the pool without ever being mined
LedgerDrop(i) ==
    /\ i \in 1..Len(txs)
    /\ txs[i].status = "pending"
    /\ txs' = [txs EXCEPT ![i].status = "dropped"]
    /\ UNCHANGED <<refs, objects, wc, nonLedgerVars>>

LedgerMined == \E i \in 1..Len(txs) : LedgerMine(i, TRUE)
LedgerReverted == \E i \in 1..Len(txs) : LedgerMine(i, FALSE)
LedgerDropped == \E i \in 1..Len(txs) : LedgerDrop(i)

max_retries == 3

\* the most transactions the ledger takes from the daemon
MaxTxs == 3

\* 500 * (1 << (retry - 1))
RECURSIVE Shl(_, _)
Shl(x, n) == IF n = 0 THEN x ELSE Shl(2 * x, n - 1)
\* a backoff that counts the attempts from 1: 500 * (1 << retry)
backoff_ms_from_one(retry) == 500 * Shl(1, retry)

backoff_ms(retry) == 500 * Shl(1, retry - 1)

NonceTooLow == <<"nonce", "too", "low">>
GasPriceTooLow == <<"gas", "price", "too", "low">>
Underpriced == <<"replacement", "transaction", "underpriced">>
\* the errors a submission can end with: the node's three retryable
\* messages and one that is none of them
SendErrors ==
    {NonceTooLow, GasPriceTooLow, Underpriced, <<"insufficient", "funds">>}

is_recoverable(error_msg) ==
    \/ Contains(error_msg, NonceTooLow)
    \/ Contains(error_msg, GasPriceTooLow)
    \/ Contains(error_msg, Underpriced)

OpWords(op) == IF op = "add_refs" THEN <<"refs">> ELSE <<"objects">>
ErrInvalidBatch(op) ==
    <<"Invalid">> \o OpWords(op) \o <<"data:", "mismatched", "lengths">>
ErrFailedToAdd(op, e) == <<"Failed", "to", "add">> \o OpWords(op) \o e
ErrAfterRetries(op) ==
    <<"Failed", "to", "add">> \o OpWords(op) \o <<"after", "3", "retries">>

NoCall ==
    [pc |-> "idle", op |-> None, names |-> <<>>, data |-> <<>>, retry |-> 0,
     tx |-> 0, result |-> NoResult, sends |-> 0, sleeps |-> <<>>,
     log |-> <<>>]

\* add_refs(references, data) / add_objects(hashes, ipfs_urls) is entered
Call(op, names, data) ==
    [NoCall EXCEPT !.pc = "begin", !.op = op, !.names = names, !.data = data]

Return(w, result) == [w EXCEPT !.pc = "returned", !.result = result]

\* NextRetry giving up one pass early
NextRetryTwoPasses(w) ==
    IF w.retry + 1 < max_retries - 1
    THEN [w EXCEPT !.pc = "attempt", !.retry = @ + 1]
    ELSE Return([w EXCEPT !.retry = @ + 1], Err(ErrAfterRetries(w.op)))

\* the end of one pass of `for retry in 0..max_retries`: the next pass, or
\* the error after the loop
NextRetry(w) ==
    IF w.retry + 1 < max_retries
    THEN [w EXCEPT !.pc = "attempt", !.retry = @ + 1]
    ELSE Return([w EXCEPT !.retry = @ + 1], Err(ErrAfterRetries(w.op)))

\* a sleep at the head of every pass, the first too
SleptEveryPass(w) == [w EXCEPT !.sleeps = Append(@, backoff_ms(w.retry + 1))]

\* the sleep at the head of a pass after the first
Slept(w) ==
    IF w.retry > 0
    THEN [w EXCEPT !.sleeps = Append(@, backoff_ms(w.retry))]
    ELSE w

\* what send() and transaction_receipt returned, in the order of the calls
Sent == <<"sent">>
ReceiptSuccess == <<"receipt", "status", "1">>
ReceiptFailed == <<"receipt", "status", "0">>
ReceiptNone == <<"no", "receipt">>
ReceiptErr == <<"receipt", "error">>
Logged(w, outcome) == [w EXCEPT !.log = Append(@, outcome)]

\* WriteBegin without the check of the batch
WriteBeginNoCheck(r) ==
    /\ wc[r].pc = "begin"
    /\ wc' = [wc EXCEPT ![r].pc = "attempt"]
    /\ UNCHANGED <<ledgerVars, nonLedgerVars>>

\* the check of the batch before the loop
WriteBegin(r) ==
    /\ wc[r].pc = "begin"
    /\ wc' = [wc EXCEPT ![r] =
                IF wc[r].names = <<>> \/ Len(wc[r].names) # Len(wc[r].data)
                THEN Return(@, Err(ErrInvalidBatch(@.op)))
                ELSE [@ EXCEPT !.pc = "attempt"]]
    /\ UNCHANGED <<ledgerVars, nonLedgerVars>>

\* send() returns Ok(tx): the transaction is with the ledger
WriteSendOk(r) ==
    /\ wc[r].pc = "attempt"
    /\ Len(txs) < MaxTxs
    /\ txs' = Append(txs, [op |-> wc[r].op, names |-> wc[r].names,
                           data |-> wc[r].data, status |-> "pending"])
    /\ wc' = [wc EXCEPT ![r] = [Logged(Slept(@), Sent)
                                    EXCEPT !.pc = "receipt",
                                           !.sends = @ + 1,
                                           !.tx = Len(txs) + 1]]
    /\ UNCHANGED <<refs, objects, nonLedgerVars>>

\* a send() error that ends the call unless it is recoverable
WriteSendErrFatal(r) ==
    /\ wc[r].pc = "attempt"
    /\ \E e \in SendErrors :
         wc' = [wc EXCEPT ![r] =
                  LET w == [Logged(Slept(@), e) EXCEPT !.sends = @ + 1]
                  IN  IF is_recoverable(e) THEN NextRetry(w)
                      ELSE Return(w, Err(ErrFailedToAdd(w.op, e)))]
    /\ UNCHANGED <<ledgerVars, nonLedgerVars>>

\* send() returns Err(e)
WriteSendErr(r) ==
    /\ wc[r].pc = "attempt"
    /\ \E e \in SendErrors :
         wc' = [wc EXCEPT ![r] =
                  LET w == [Logged(Slept(@), e) EXCEPT !.sends = @ + 1]
                  IN  IF is_recoverable(e) THEN NextRetry(w)
                      ELSE IF w.retry = max_retries - 1
                      THEN Return(w, Err(ErrFailedToAdd(w.op, e)))
                      ELSE NextRetry(w)]
    /\ UNCHANGED <<ledgerVars, nonLedgerVars>>

\* a receipt taken as success whatever its status
WriteReceiptSomeAnyStatus(r) ==
    /\ wc[r].pc = "receipt"
    /\ txs[wc[r].tx].status \in {"success", "failed"}
    /\ wc' = [wc EXCEPT ![r] =
                Return(Logged(@, IF txs[@.tx].status = "success"
                                 THEN ReceiptSuccess ELSE ReceiptFailed),
                       Ok(<<>>))]
    /\ UNCHANGED <<ledgerVars, nonLedgerVars>>

\* transaction_receipt returns Ok(Some(receipt)): the transaction was mined
WriteReceiptSome(r) ==
    /\ wc[r].pc = "receipt"
    /\ txs[wc[r].tx].status \in {"success", "failed"}
    /\ wc' = [wc EXCEPT ![r] =
                IF txs[@.tx].status = "success"
                THEN Return(Logged(@, ReceiptSuccess), Ok(<<>>))
                ELSE NextRetry(Logged(@, ReceiptFailed))]
    /\ UNCHANGED <<ledgerVars, nonLedgerVars>>

\* transaction_receipt returns Ok(None): "assuming success"
WriteReceiptNone(r) ==
    /\ wc[r].pc = "receipt"
    /\ txs[wc[r].tx].status \in {"pending", "dropped"}
    /\ wc' = [wc EXCEPT ![r] = Return(Logged(@, ReceiptNone), Ok(<<>>))]
    /\ UNCHANGED <<ledgerVars, nonLedgerVars>>

\* transaction_receipt returns Err(e)
WriteReceiptErr(r) ==
    /\ wc[r].pc = "receipt"
    /\ wc' = [wc EXCEPT ![r] = NextRetry(Logged(@, ReceiptErr))]
    /\ UNCHANGED <<ledgerVars, nonLedgerVars>>

RegistryEmpty ==
    /\ contracts = [n \in RepoNames |-> NoContract]
    /\ inner = NoHolder
    /\ deployed = 0
    /\ crPc = [r \in CreateReqs |-> "idle"]
    /\ crRepo = [r \in CreateReqs |-> None]
    /\ crContract = [r \in CreateReqs |-> NoContract]
    /\ crResult = [r \in CreateReqs |-> NoResult]
    /\ crHttp = [r \in CreateReqs |-> NoResponse]

PumpIdle ==
    /\ pumpPc = "idle"
    /\ toWrite = 0
    /\ stdinPipe = 0
    /\ stdoutPipe = 0
    /\ childPc = "none"
    /\ childWritten = 0
    /\ response = 0

LedgerEmpty ==
    /\ refs = <<>>
    /\ objects = <<>>
    /\ txs = <<>>

WriteIdle == wc = [r \in Reqs |-> NoCall]

\* no blob-store call yet: the position, the payload read from the file, the
\* content id, whether IPFS_PREFIX names a gateway, the attempt or round,
\* the requests and sleeps made so far, the destination file, the result
NoCid == [hash |-> None]
NoFile == [exists |-> FALSE, data |-> <<>>]
NoBlobCall ==
    [op |-> None, pc |-> "idle", content |-> <<>>, cid |-> NoCid,
     gateway |-> FALSE, attempt |-> 0, log |-> <<>>, file |-> NoFile,
     result |-> NoResult]

BlobIdle == node = {} /\ bc = NoBlobCall

NoLoose == [pc |-> "idle", hash |-> <<>>, path |-> <<>>, obj_hash |-> <<>>]
PathIdle == loose = NoLoose

NoRequest ==
    [kind |-> None, repo |-> None, service |-> <<>>, body |-> <<>>,
     address |-> <<>>,
     pc |-> "idle", temp_path |-> None, temp_dir |-> FALSE, procs |-> <<>>,
     child_ok |-> TRUE,
     refs |-> <<>>, files |-> <<>>, objects |-> <<>>, object_files |-> {},
     i |-> 0, wanted |-> <<>>, scan |-> <<>>, objects_to_upload |-> <<>>,
     skipped |-> <<>>, object_hashes |-> <<>>, ipfs_urls |-> <<>>,
     updated_refs |-> <<>>, ref_data |-> <<>>,
     response |-> <<>>, result |-> NoResult, http |-> NoResponse]

HandlersIdle ==
    /\ blobs = {}
    /\ hs = [r \in Reqs |-> NoRequest]

\* the longest batch handed to a call
MaxBatch == 2

SeqsUpTo(S, n) == UNION {[1..k -> S] : k \in 0..n}

\* a call of either operation on any batch, well-formed or not, against a
\* ledger that may already hold an entry
InitWrite ==
    /\ RegistryEmpty
    /\ BlobIdle
    /\ PathIdle
    /\ PumpIdle
    /\ HandlersIdle
    /\ refs \in {<<>>, <<Ref(Main, HashA, TRUE)>>}
    /\ objects = <<>>
    /\ txs = <<>>
    /\ \E op \in {"add_refs", "add_objects"} :
       \E names \in SeqsUpTo(IF op = "add_refs" THEN {Main, TagV1}
                                                ELSE {HashA, HashB}, MaxBatch) :
       \E data \in SeqsUpTo(IF op = "add_refs" THEN {HashA, HashB}
                                               ELSE {<<"Q", "m", "1">>}, MaxBatch) :
          wc = [r \in Reqs |-> IF r = 1 THEN Call(op, names, data) ELSE NoCall]

NextWrite ==
    \/ WriteBegin(1)
    \/ WriteSendOk(1)
    \/ WriteSendErr(1)
    \/ WriteReceiptSome(1)
    \/ WriteReceiptNone(1)
    \/ WriteReceiptErr(1)
    \/ LedgerMined
    \/ LedgerReverted
    \/ LedgerDropped

SpecWrite == InitWrite /\ [][NextWrite]_vars

\* the call is an async function that is polled to its end: every await in
\* it (send, transaction_receipt, sleep) returns
WriteClientStep ==
    \/ WriteBegin(1)
    \/ WriteSendOk(1)
    \/ WriteSendErr(1)
    \/ WriteReceiptSome(1)
    \/ WriteReceiptNone(1)
    \/ WriteReceiptErr(1)

SpecWriteLive == SpecWrite /\ WF_vars(WriteClientStep)

\* a ref list holds an active entry with this name and this data
HoldsActive(list, name, data) ==
    \E i \in 1..Len(list) :
        list[i].name = name /\ list[i].data = data /\ list[i].is_active

\* C10: whenever add_refs(R) has returned success, the get_refs() that
\* immediately follows returns every element of R with is_active = true.
C10_AddRefsRoundTrip ==
    \A r \in Reqs :
        (wc[r].pc = "returned" /\ wc[r].op = "add_refs" /\ wc[r].result.ok)
        => \A i \in 1..Len(wc[r].names) :
              HoldsActive(get_refs, wc[r].names[i], wc[r].data[i])

\* the message of a submission error holds one of the three texts
RecoverableText(e) ==
    \/ Contains(e, <<"nonce", "too", "low">>)
    \/ Contains(e, <<"gas", "price", "too", "low">>)
    \/ Contains(e, <<"replacement", "transaction", "underpriced">>)

\* the first n entries of the call's log are submissions that failed with a
\* recoverable error
RecoverableErrors(w, n) ==
    /\ Len(w.log) >= n
    /\ \A k \in 1..n : w.log[k] # Sent /\ RecoverableText(w.log[k])

\* two submissions failed with a recoverable error, the third was accepted
\* and its receipt showed success or was absent
TwoRecoverableThenSuccess(w) ==
    /\ Len(w.log) = 4
    /\ RecoverableErrors(w, 2)
    /\ w.log[3] = Sent
    /\ w.log[4] \in {ReceiptSuccess, ReceiptNone}

\* C11: in add_objects and add_refs, a call whose submissions so far (one
\* or two) all failed with a recoverable error goes on to the next attempt;
\* when the first two failed so and the third is accepted with a success
\* receipt or no receipt, the call returns success; a call never makes more
\* than 3 submissions.
C11_RetryThenSuccess ==
    \A r \in Reqs :
        /\ wc[r].sends <= 3
        /\ (Len(wc[r].log) \in 1..2 /\ RecoverableErrors(wc[r], Len(wc[r].log)))
            => /\ wc[r].pc = "attempt"
               /\ wc[r].retry = Len(wc[r].log)
        /\ TwoRecoverableThenSuccess(wc[r])
            => /\ wc[r].pc = "returned"
               /\ wc[r].result = Ok(<<>>)
               /\ wc[r].sends = 3

\* C11's case: the call returned success on its third submission after two
\* recoverable errors
C11_Witness ==
    \E r \in Reqs :
        /\ TwoRecoverableThenSuccess(wc[r])
        /\ wc[r].pc = "returned" /\ wc[r].result.ok
        /\ wc[r].log[1] # wc[r].log[2]

\* the batch of the call breaks the precondition: the first sequence is
\* empty or the two lengths differ
InvalidBatch(w) ==
    /\ w.pc # "idle"
    /\ w.names = <<>> \/ Len(w.names) # Len(w.data)

\* C12: add_objects and add_refs called with an empty first sequence or with
\* sequences of different lengths return the invalid-batch error; the call
\* submits no transaction and does not sleep, and the ledger stays as it was.
C12_InvalidBatch ==
    [][\A r \in Reqs :
          InvalidBatch(wc[r])
          => /\ wc[r].sends = 0 /\ wc'[r].sends = 0
             /\ wc'[r].sleeps = <<>> /\ wc'[r].log = <<>>
             /\ txs' = txs /\ refs' = refs /\ objects' = objects
             /\ wc[r].pc = "begin"
                 => /\ wc'[r].pc = "returned"
                    /\ wc'[r].result = Err(ErrInvalidBatch(wc[r].op))
             /\ wc[r].pc = "returned" => wc'[r] = wc[r]
      ]_vars

\* C12's case: a call with an invalid batch has returned its error
C12_Witness ==
    \E r \in Reqs :
        /\ InvalidBatch(wc[r])
        /\ wc[r].pc = "returned"
        /\ wc[r].result = Err(ErrInvalidBatch(wc[r].op))
        /\ Len(wc[r].names) # Len(wc[r].data) /\ wc[r].names # <<>>

ReceiptOutcomes == {ReceiptSuccess, ReceiptFailed, ReceiptNone, ReceiptErr}

\* how many of the first k entries of the call's log are outcomes of send()
Submissions(w, k) ==
    Cardinality({j \in 1..k : w.log[j] = Sent \/ w.log[j] \in SendErrors})

\* the call stands at the head of its next pass, or after the loop if the
\* pass that just ended was the third
FellThrough(w) ==
    IF Submissions(w, Len(w.log)) < 3
    THEN /\ w.pc = "attempt"
         /\ w.retry = Submissions(w, Len(w.log))
         /\ w.result = NoResult
    ELSE /\ w.pc = "returned"
         /\ w.result
              = Err(<<"Failed", "to", "add">>
                    \o (IF w.op = "add_refs" THEN <<"refs">> ELSE <<"objects">>)
                    \o <<"after", "3", "retries">>)

\* C28: in add_objects and add_refs the receipt is looked up once for each
\* accepted submission and not otherwise.  A receipt with success status or
\* an absent receipt is the last thing the call does before it returns
\* success; a receipt with failure status or a failed lookup makes the call
\* fall through to its next attempt (to the error after the loop if the
\* attempt was the third).  So a submission that follows an accepted one
\* follows a failure receipt or a failed lookup.
C28_ReceiptPolledOnce ==
    \A r \in Reqs :
        LET w == wc[r]
            n == Len(wc[r].log)
        IN  /\ w.pc = "receipt" <=> (n > 0 /\ w.log[n] = Sent)
            /\ \A k \in 1..n :
                  /\ (w.log[k] = Sent /\ k < n)
                     => w.log[k + 1] \in ReceiptOutcomes
                  /\ w.log[k] \in ReceiptOutcomes
                     => k > 1 /\ w.log[k - 1] = Sent
                  /\ w.log[k] \in {ReceiptSuccess, ReceiptNone}
                     => /\ k = n
                        /\ w.pc = "returned"
                        /\ w.result = Ok(<<>>)
                  /\ w.log[k] = ReceiptSuccess
                     => txs[w.tx].status = "success"
                  /\ w.log[k] = ReceiptFailed
                     => txs[w.tx].status = "failed" \/ k < n
                  /\ (w.log[k] \in {ReceiptFailed, ReceiptErr} /\ k = n)
                     => FellThrough(w)
                  /\ (k > 2 /\ w.log[k] = Sent /\ w.log[k - 2] = Sent)
                     => w.log[k - 1] \in {ReceiptFailed, ReceiptErr}

\* the first submission was mined and reverted, the second was accepted
\* and its receipt showed success
C28_Witness ==
    /\ wc[1].log = <<Sent, ReceiptFailed, Sent, ReceiptSuccess>>
    /\ wc[1].pc = "returned" /\ wc[1].result.ok
    /\ Len(txs) = 2 /\ txs[1].status = "failed" /\ txs[2].status = "success"

\* C29: in add_objects and add_refs a submission error with none of the
\* recoverable texts ends the call only on the third attempt, with "Failed
\* to add <what>" and the error's text; on the first or second attempt the
\* call goes on to its next attempt, before which it sleeps the backoff of
\* that attempt (500 ms, then 1000 ms).
C29_FatalOnLastAttemptOnly ==
    \A r \in Reqs :
        LET w == wc[r]
            n == Len(wc[r].log)
        IN  /\ \A k \in 1..n :
                  (w.log[k] \in SendErrors /\ ~RecoverableText(w.log[k]))
                  => IF Submissions(w, k) = 3
                     THEN /\ k = n
                          /\ w.pc = "returned"
                          /\ w.result
                               = Err(<<"Failed", "to", "add">>
                                     \o (IF w.op = "add_refs" THEN <<"refs">>
                                         ELSE <<"objects">>)
                                     \o w.log[k])
                     ELSE k = n => FellThrough(w)
            /\ w.sleeps
                 = [j \in 1..(IF w.sends > 0 THEN w.sends - 1 ELSE 0)
                      |-> IF j = 1 THEN 500 ELSE 1000]

\* a submission failed with an error that is not recoverable, the next one
\* was accepted after the first backoff, and the call returned success
C29_Witness ==
    /\ wc[1].log = <<<<"insufficient", "funds">>, Sent, ReceiptSuccess>>
    /\ wc[1].sleeps = <<500>>
    /\ wc[1].pc = "returned" /\ wc[1].result = Ok(<<>>)

\* C30: every add_objects/add_refs call returns, whatever the ledger
\* answers, after at most 3 submissions and at most 2 sleeps (500 ms, then
\* 1000 ms).  It returns success only if its last submission was accepted
\* and the receipt showed success or was absent; otherwise, for a
\* well-formed batch, it has made 3 submissions and returns "Failed to add
\* <what> after 3 retries", or "Failed to add <what>" with the text of a
\* non-recoverable error of the third submission.
C30_Terminates ==
    /\ [](\A r \in Reqs :
            LET w == wc[r]
                n == Len(wc[r].log)
            IN  /\ w.sends <= 3 /\ Submissions(w, n) = w.sends
                /\ Len(w.sleeps) <= 2
                /\ \A j \in 1..Len(w.sleeps) : w.sleeps[j] = 500 * j
                /\ (w.pc = "returned" /\ w.result.ok)
                   => /\ n >= 2 /\ w.log[n - 1] = Sent
                      /\ w.log[n] \in {ReceiptSuccess, ReceiptNone}
                /\ (w.pc = "returned" /\ ~w.result.ok /\ ~InvalidBatch(w))
                   => /\ w.sends = 3
                      /\ w.log[n] \notin {ReceiptSuccess, ReceiptNone}
                      /\ \/ w.result = Err(ErrAfterRetries(w.op))
                         \/ /\ w.log[n] \in SendErrors
                            /\ ~RecoverableText(w.log[n])
                            /\ w.result = Err(ErrFailedToAdd(w.op, w.log[n]))
                /\ (n = 3 /\ \A k \in 1..3 :
                               w.log[k] \in SendErrors /\ RecoverableText(w.log[k]))
                   => w.pc = "returned" /\ w.result = Err(ErrAfterRetries(w.op))
                /\ (n = 6 /\ \A k \in {2, 4, 6} : w.log[k] = ReceiptFailed)
                   => w.pc = "returned" /\ w.result = Err(ErrAfterRetries(w.op)))
    /\ \A r \in Reqs : (wc[r].pc = "begin") ~> (wc[r].pc = "returned")

\* three submissions were accepted and all three reverted: the call has
\* returned the error after two sleeps
C30_Witness ==
    /\ wc[1].log = <<Sent, ReceiptFailed, Sent, ReceiptFailed,
                     Sent, ReceiptFailed>>
    /\ wc[1].sleeps = <<500, 1000>>
    /\ wc[1].pc = "returned"
    /\ ~wc[1].result.ok
    /\ Len(txs) = 3

RECURSIVE Pow2(_)
Pow2(n) == IF n = 0 THEN 1 ELSE 2 * Pow2(n - 1)

\* the sleeps of a call are those before its attempts 2..k, k the number of
\* attempts made so far: none before the first
SleepsBeforeRetriesOnly(w) ==
    Len(w.sleeps) = (IF w.sends > 0 THEN w.sends - 1 ELSE 0)

\* C31 as stated: no sleep precedes the first attempt, and the sleep before
\* attempt k (k = 2, 3) is 500 ms * 2^(k-1): 1000 ms, then 2000 ms.
C31_BackoffAsStated ==
    \A r \in Reqs :
        /\ SleepsBeforeRetriesOnly(wc[r])
        /\ \A k \in 2..(Len(wc[r].sleeps) + 1) :
              wc[r].sleeps[k - 1] = 500 * Pow2(k - 1)

\* C31 (amended): no sleep precedes the first attempt, and the sleep before
\* attempt k (k = 2, 3) is 500 ms * 2^(k-2): 500 ms before the second
\* attempt, 1000 ms before the third.
C31_Backoff ==
    \A r \in Reqs :
        /\ SleepsBeforeRetriesOnly(wc[r])
        /\ \A k \in 2..(Len(wc[r].sleeps) + 1) :
              wc[r].sleeps[k - 1] = 500 * Pow2(k - 2)
        /\ Len(wc[r].sleeps) >= 1 => wc[r].sleeps[1] = 500
        /\ Len(wc[r].sleeps) >= 2 => wc[r].sleeps[2] = 1000

\* an add_objects call made its third attempt after both sleeps
C31_Witness ==
    /\ wc[1].op = "add_objects"
    /\ wc[1].sends = 3
    /\ wc[1].sleeps = <<500, 1000>>

InitRegistry ==
    /\ RegistryEmpty /\ PumpIdle /\ LedgerEmpty /\ WriteIdle /\ HandlersIdle
    /\ BlobIdle
    /\ PathIdle

NextRegistry ==
    \E r \in CreateReqs :
        \/ CreateArrive(r)
        \/ CreateCheck(r)
        \/ CreateDeployOk(r)
        \/ CreateDeployErr(r)
        \/ CreateInsert(r)

SpecRegistry == InitRegistry /\ [][NextRegistry]_vars

CreateSucceeded(r) == crPc[r] = "done" /\ crResult[r].ok
CreateRefused(r) ==
    /\ crPc[r] = "done"
    /\ ~crResult[r].ok
    /\ Contains(crResult[r].msg, <<"already", "exists">>)

\* C2: under any interleaving of create-repo requests for one name, at most
\* one of them succeeds, and a registered name keeps its handle: no step
\* replaces or removes it.
C2_CreateRepoAtomic ==
    [][ /\ \A n \in RepoNames :
             contracts[n] # NoContract => contracts'[n] = contracts[n]
        /\ \A n \in RepoNames :
             Cardinality({r \in CreateReqs :
                            CreateSucceeded(r)' /\ crRepo'[r] = n}) <= 1
      ]_vars

\* C3: a create-repo that finds its name registered fails with "already
\* exists", deploys nothing and leaves the registry as it is; a create-repo
\* whose deployment succeeded registers the handle it deployed and returns
\* that handle's address.
C3_CreateRepoSequential ==
    [][ \A r \in CreateReqs :
          /\ (crPc[r] = "check" /\ crPc'[r] # "check"
                 /\ contracts[crRepo[r]] # NoContract)
              => /\ CreateRefused(r)'
                 /\ crContract'[r] = NoContract
                 /\ contracts' = contracts
                 /\ deployed' = deployed
          /\ (crPc[r] = "insert" /\ crPc'[r] # "insert")
              => /\ CreateSucceeded(r)'
                 /\ \E k \in 1..deployed : crContract[r] = AddressBytes(k)
                 /\ contracts'[crRepo[r]] = crContract[r]
                 /\ crResult'[r].value.repo = crRepo[r]
                 /\ crResult'[r].value.address = address(contracts'[crRepo[r]])
                 /\ Len(crResult'[r].value.address) = 2 + 2 * AddrLen
          /\ CreateRefused(r)' => crContract'[r] = NoContract
      ]_vars

\* C3's case: one request created "demo", a later one was refused
C3_Witness ==
    \E r1, r2 \in CreateReqs :
        /\ CreateSucceeded(r1) /\ crRepo[r1] = "demo"
        /\ CreateRefused(r2) /\ crRepo[r2] = "demo"
        /\ contracts["demo"] = crContract[r1]

DeployFailed(r) == crPc[r] = "done" /\ crResult[r] = Err(ErrDeploy)

\* C39: a create-repo whose deployment fails returns the error (status 400)
\* and the step that fails leaves the registry as it was: a look-up of the
\* name, or of any name, gives what it gave before; a name is registered
\* only with the handle of a create-repo for it that succeeded
C39_DeployFailureLeavesRegistry ==
    /\ [](\A r \in CreateReqs :
            DeployFailed(r) =>
                /\ crHttp[r] = [status |-> 400, content_type |-> TextPlain,
                                body |-> ErrDeploy]
                /\ crContract[r] = NoContract)
    /\ [](\A n \in RepoNames :
            get_contract(n) # NoContract =>
                \E r \in CreateReqs :
                    /\ CreateSucceeded(r)
                    /\ crRepo[r] = n
                    /\ crContract[r] = get_contract(n))
    /\ [][ \A r \in CreateReqs :
             crPc[r] = "deploy" /\ DeployFailed(r)' =>
                 /\ contracts' = contracts
                 /\ get_contract(crRepo[r])' = get_contract(crRepo[r])
         ]_vars

\* a deployment for "demo" failed, and a create-repo for "demo" succeeded
\* and registered its own handle
C39_Witness ==
    \E r1, r2 \in CreateReqs :
        /\ DeployFailed(r1) /\ crRepo[r1] = "demo"
        /\ CreateSucceeded(r2) /\ crRepo[r2] = "demo"
        /\ get_contract("demo") = crContract[r2]

(***************************************************************************)
(* The protocol handlers                                                   *)
(*                                                                         *)
(* A request runs from its registry lookup to its result.  Its scratch     *)
(* repository is the temp_dir flag (the directory exists), files (the ref  *)
(* files, path -> content) and object_files (the loose objects, by hash).  *)
(* A run of the Git executable is one step that appends the command to     *)
(* procs; how the stateless-RPC child is fed is the subject of SpecPump.   *)
(***************************************************************************)
GitUploadPack == <<"g", "i", "t", "-", "u", "p", "l", "o", "a", "d", "-", "p", "a", "c", "k">>
GitReceivePack == <<"g", "i", "t", "-", "r", "e", "c", "e", "i", "v", "e", "-", "p", "a", "c", "k">>
Short == <<"a", "b", "c">>
HeadName == <<"HEAD">>
LF == "\n"

ErrNotFound == <<"Repository", "not", "found">>
ErrTempdir == <<"tempdir:", "io", "error">>
ErrInit == <<"Failed", "to", "initialize", "git", "repo:">>
ErrLedgerRead == <<"ledger", "call", "failed">>
ErrNoRefs == <<"Repository", "has", "no", "refs">>
ErrConvert == <<"Failed", "to", "convert", "ref", "data", "to", "string">>
ErrFromUtf8 == <<"invalid", "utf-8", "sequence">>
ErrMalformedRef(ref_name, sha1) ==
    <<"Malformed", "ref">> \o ref_name \o <<":">> \o sha1
ErrAdvertise == <<"Failed", "to", "generate", "refs", "advertisement:">>
ErrUnknownService(service) == <<"Unknown", "service:">> \o service

\* String::from_utf8 succeeds: no byte of the data is outside UTF-8
IsUtf8(data) == \A i \in 1..Len(data) : data[i] # "<ff>"

\* tokio::fs::write(temp_path.join(ref_name), format!("{}\n", sha1))
WriteRefFile(files, ref_name, sha1) ==
    [p \in DOMAIN files \cup {ref_name} |->
        IF p = ref_name THEN sha1 \o <<LF>> ELSE files[p]]

Wrote(files) == [files |-> files, err |-> <<>>]
Failed(files, err) == [files |-> files, err |-> err]

\* the body of handle_info_refs' loop over the refs
InfoRefsSetUpRef(files, ref_data) ==
    IF ~ref_data.is_active THEN Wrote(files)
    ELSE IF ~IsUtf8(ref_data.data) THEN Failed(files, ErrConvert)
    ELSE IF Len(ref_data.data) # HashLen
            \/ ~StartsWith(ref_data.name, <<"refs/">>)
    THEN Failed(files, ErrMalformedRef(ref_data.name, ref_data.data))
    ELSE Wrote(WriteRefFile(files, ref_data.name, ref_data.data))

\* the body of handle_upload_pack's loop over the refs
UploadPackSetUpRef(files, ref_data) ==
    IF ~ref_data.is_active THEN Wrote(files)
    ELSE IF ~IsUtf8(ref_data.data) THEN Failed(files, ErrFromUtf8)
    ELSE Wrote(WriteRefFile(files, ref_data.name, ref_data.data))

\* the body of handle_receive_pack's loop over the refs
ReceivePackSetUpRef(files, ref_data) ==
    IF ~IsUtf8(ref_data.data) THEN Failed(files, ErrFromUtf8)
    ELSE Wrote(WriteRefFile(files, ref_data.name, ref_data.data))

SetUpRef(kind, files, ref_data) ==
    CASE kind = "info_refs" -> InfoRefsSetUpRef(files, ref_data)
      [] kind = "upload_pack" -> UploadPackSetUpRef(files, ref_data)
      [] kind = "receive_pack" -> ReceivePackSetUpRef(files, ref_data)

\* `for ref_data in &refs`: the refs in order, up to the first error
RECURSIVE SetUpRefs(_, _, _, _)
SetUpRefs(kind, list, i, files) ==
    IF i > Len(list) THEN Wrote(files)
    ELSE LET step == SetUpRef(kind, files, list[i])
         IN  IF step.err # <<>> THEN step
             ELSE SetUpRefs(kind, list, i + 1, step.files)

\* the handler returns: temp_dir is dropped, which deletes the directory
RoleKinds ==
    {"grant_pusher", "revoke_pusher", "grant_admin", "revoke_admin",
     "check_pusher", "check_admin"}

\* the Content-Type each wrapper gives its Ok response
content_type(kind, service) ==
    CASE kind = "upload_pack" -> "application/x-git-upload-pack-result"
      [] kind = "receive_pack" -> "application/x-git-receive-pack-result"
      [] kind = "info_refs" ->
            IF service = GitUploadPack
            THEN "application/x-git-upload-pack-advertisement"
            ELSE IF service = GitReceivePack
            THEN "application/x-git-receive-pack-advertisement"
            ELSE "text/plain"
      [] OTHER -> Json

\* the handler returns: its TempDir is dropped, the wrapper answers
Finish(h, result) ==
    [h EXCEPT !.pc = "done", !.temp_dir = FALSE, !.result = result,
              !.http = into_response(content_type(h.kind, h.service),
                                     result)]

Ran(h, command) == [h EXCEPT !.procs = Append(@, command)]

\* the names tempfile gives its directories
DirNames == {"tmp.a", "tmp.b"}

\* the scratch directories that exist
ScratchDirs == {hs[q].temp_path : q \in {x \in Reqs : hs[x].temp_dir}}

\* tempdir() with any name, taken or not
tempdir_any == CHOOSE d \in DirNames : TRUE

\* tempfile::tempdir(): a new directory under a name no existing one has
tempdir == CHOOSE d \in DirNames : d \notin ScratchDirs

\* a handler that makes its scratch directory before it looks the name up
LookupAfterTempdir(r) ==
    /\ hs[r].pc = "lookup"
    /\ hs' = [hs EXCEPT ![r] =
                LET h == [@ EXCEPT !.temp_path = tempdir, !.temp_dir = TRUE]
                IN  IF get_contract(@.repo) = NoContract
                    THEN Finish(h, Err(ErrNotFound))
                    ELSE [h EXCEPT !.pc = "init"]]
    /\ UNCHANGED <<ledgerVars, wc, blobs, nonHandlerVars>>

\* get_contract(&repo).ok_or_else(..)?, then tempdir()
Lookup(r) ==
    /\ hs[r].pc = "lookup"
    /\ hs' = [hs EXCEPT ![r] =
                IF get_contract(@.repo) = NoContract
                THEN Finish(@, Err(ErrNotFound))
                ELSE IF @.kind \in RoleKinds
                THEN [@ EXCEPT !.pc = "parse_address"]
                ELSE [@ EXCEPT !.pc = "init", !.temp_path = tempdir,
                               !.temp_dir = TRUE]]
    /\ UNCHANGED <<ledgerVars, wc, blobs, nonHandlerVars>>

\* a protocol or role handler enters get_contract
LookupLock(r) ==
    /\ hs[r].pc = "lookup"
    /\ lock(RequestHolder(r))
    /\ hs' = [hs EXCEPT ![r].pc = "lookup_locked"]
    /\ UNCHANGED <<contracts, deployed, crPc, crRepo, crContract, crResult,
                   crHttp>>
    /\ UNCHANGED <<ledgerVars, wc, blobs, pumpVars, blobVars, loose>>

\* get_contract returns to the handler: the look-up, the guard dropped, and
\* `.ok_or_else(|| anyhow!("Repository not found"))?`, then tempdir()
LookupUnlock(r) ==
    /\ hs[r].pc = "lookup_locked"
    /\ unlock(RequestHolder(r))
    /\ hs' = [hs EXCEPT ![r] =
                IF get_contract(@.repo) = NoContract
                THEN Finish(@, Err(ErrNotFound))
                ELSE IF @.kind \in RoleKinds
                THEN [@ EXCEPT !.pc = "parse_address"]
                ELSE [@ EXCEPT !.pc = "init", !.temp_path = tempdir,
                               !.temp_dir = TRUE]]
    /\ UNCHANGED <<contracts, deployed, crPc, crRepo, crContract, crResult,
                   crHttp>>
    /\ UNCHANGED <<ledgerVars, wc, blobs, pumpVars, blobVars, loose>>

\* tempdir()? fails: no directory is created
TempdirErr(r) ==
    /\ hs[r].pc = "lookup"
    /\ hs[r].kind \notin RoleKinds
    /\ get_contract(hs[r].repo) # NoContract
    /\ hs' = [hs EXCEPT ![r] = Finish(@, Err(ErrTempdir))]
    /\ UNCHANGED <<ledgerVars, wc, blobs, nonHandlerVars>>

\* git init --bare exits with success
InitBareOk(r) ==
    /\ hs[r].pc = "init"
    /\ hs' = [hs EXCEPT ![r] = [Ran(@, "init --bare") EXCEPT !.pc = "get_refs"]]
    /\ UNCHANGED <<ledgerVars, wc, blobs, nonHandlerVars>>

\* git init --bare fails
InitBareErr(r) ==
    /\ hs[r].pc = "init"
    /\ hs' = [hs EXCEPT ![r] = Finish(Ran(@, "init --bare"), Err(ErrInit))]
    /\ UNCHANGED <<ledgerVars, wc, blobs, nonHandlerVars>>

\* a get_refs step that refuses an empty ledger in every handler
GetRefsOkRefusesEmpty(r) ==
    /\ hs[r].pc = "get_refs"
    /\ hs' = [hs EXCEPT ![r] =
                IF get_refs = <<>>
                THEN Finish(@, Err(ErrNoRefs))
                ELSE [@ EXCEPT !.pc = "set_up_refs", !.refs = get_refs]]
    /\ UNCHANGED <<ledgerVars, wc, blobs, nonHandlerVars>>

\* a get_refs step that refuses no ledger
GetRefsOkAnyLedger(r) ==
    /\ hs[r].pc = "get_refs"
    /\ hs' = [hs EXCEPT ![r] =
                [@ EXCEPT !.pc = "set_up_refs", !.refs = get_refs]]
    /\ UNCHANGED <<ledgerVars, wc, blobs, nonHandlerVars>>

\* contract.get_refs().await? returns the ledger's refs; upload-pack
\* refuses an empty list
GetRefsOk(r) ==
    /\ hs[r].pc = "get_refs"
    /\ hs' = [hs EXCEPT ![r] =
                IF @.kind = "upload_pack" /\ get_refs = <<>>
                THEN Finish(@, Err(ErrNoRefs))
                ELSE [@ EXCEPT !.pc = "set_up_refs", !.refs = get_refs]]
    /\ UNCHANGED <<ledgerVars, wc, blobs, nonHandlerVars>>

\* contract.get_refs().await? fails
GetRefsErr(r) ==
    /\ hs[r].pc = "get_refs"
    /\ hs' = [hs EXCEPT ![r] = Finish(@, Err(ErrLedgerRead))]
    /\ UNCHANGED <<ledgerVars, wc, blobs, nonHandlerVars>>

\* the loop that writes the ref files
SetUpRefFiles(r) ==
    /\ hs[r].pc = "set_up_refs"
    /\ hs' = [hs EXCEPT ![r] =
                LET done == SetUpRefs(@.kind, @.refs, 1, @.files)
                    h == [@ EXCEPT !.files = done.files]
                IN  IF done.err # <<>> THEN Finish(h, Err(done.err))
                    ELSE [h EXCEPT !.pc =
                            CASE h.kind = "info_refs" -> "update_server_info"
                              [] h.kind = "upload_pack" -> "parse_wants"
                              [] h.kind = "receive_pack" -> "get_objects"]]
    /\ UNCHANGED <<ledgerVars, wc, blobs, nonHandlerVars>>

\* an info/refs that goes on to fetch the objects as the other two do
UpdateServerInfoThenObjects(r) ==
    /\ hs[r].pc = "update_server_info"
    /\ hs' = [hs EXCEPT ![r] =
                [Ran(@, "update-server-info") EXCEPT !.pc = "get_objects"]]
    /\ UNCHANGED <<ledgerVars, wc, blobs, nonHandlerVars>>

\* info/refs: git update-server-info; its failure is only logged
UpdateServerInfo(r) ==
    /\ hs[r].pc = "update_server_info"
    /\ hs' = [hs EXCEPT ![r] =
                [Ran(@, "update-server-info") EXCEPT !.pc = "advertise"]]
    /\ UNCHANGED <<ledgerVars, wc, blobs, nonHandlerVars>>

\* a match whose first arm takes every service
KnownServiceAny(service) == TRUE

KnownService(service) == service = GitUploadPack \/ service = GitReceivePack

git_command(service) ==
    IF service = GitUploadPack THEN "upload-pack" ELSE "receive-pack"

\* format!("{:04x}", pkt_len)
Hex04(n) == <<HexDigits[((n \div 4096) % 16) + 1],
              HexDigits[((n \div 256) % 16) + 1],
              HexDigits[((n \div 16) % 16) + 1],
              HexDigits[(n % 16) + 1]>>

service_announcement(service) == <<"#", " ", "s", "e", "r", "v", "i", "c", "e", "=">> \o service \o <<LF>>

\* an advertisement whose length prefix leaves its own four bytes out
AdvertisementLineLength(service, stdout) ==
    Hex04(Len(service_announcement(service)))
        \o service_announcement(service) \o <<"0", "0", "0", "0">> \o stdout

\* the advertisement: pkt-line of the announcement, flush, git's stdout
Advertisement(service, stdout) ==
    Hex04(4 + Len(service_announcement(service)))
        \o service_announcement(service) \o <<"0", "0", "0", "0">> \o stdout

\* what the Git executable prints (one chunk of output, or nothing)
GitOutputs == {<<>>, <<"<out>">>}

\* info/refs: git <command> --advertise-refs succeeds
AdvertiseOk(r) ==
    /\ hs[r].pc = "advertise"
    /\ KnownService(hs[r].service)
    /\ \E stdout \in GitOutputs :
         hs' = [hs EXCEPT ![r] =
                  LET h == Ran(@, git_command(@.service))
                      out == Advertisement(@.service, stdout)
                  IN  Finish([h EXCEPT !.response = out], Ok(out))]
    /\ UNCHANGED <<ledgerVars, wc, blobs, nonHandlerVars>>

\* info/refs: git <command> --advertise-refs fails
AdvertiseErr(r) ==
    /\ hs[r].pc = "advertise"
    /\ KnownService(hs[r].service)
    /\ hs' = [hs EXCEPT ![r] =
                Finish([Ran(@, git_command(@.service))
                          EXCEPT !.child_ok = FALSE],
                       Err(ErrAdvertise))]
    /\ UNCHANGED <<ledgerVars, wc, blobs, nonHandlerVars>>

\* info/refs: the service is neither of the two
UnknownService(r) ==
    /\ hs[r].pc = "advertise"
    /\ ~KnownService(hs[r].service)
    /\ hs' = [hs EXCEPT ![r] = Finish(@, Err(ErrUnknownService(@.service)))]
    /\ UNCHANGED <<ledgerVars, wc, blobs, nonHandlerVars>>

(***************************************************************************)
(* upload-pack                                                             *)
(***************************************************************************)
ErrBodyUtf8 == <<"invalid", "utf-8", "in", "body">>
ErrNotOurRef(commit_hash) ==
    <<"upload-pack:", "not", "our", "ref">> \o commit_hash
ErrCheckingCommit == <<"Error", "checking", "commit", "existence:">>
ErrDownload == <<"Failed", "to", "download", "from", "IPFS">>
ErrUploadPackFailed == <<"git", "upload-pack", "failed:">>

Whitespace == {" ", LF, "\r", "\t"}

\* the position of the first token of s that is in set, or 0
RECURSIVE FirstIn(_, _, _)
FirstIn(s, set, i) ==
    IF i > Len(s) THEN 0
    ELSE IF s[i] \in set THEN i
    ELSE FirstIn(s, set, i + 1)

\* a line without the carriage return that ended it
StripCR(line) ==
    IF line # <<>> /\ line[Len(line)] = "\r"
    THEN SubSeq(line, 1, Len(line) - 1)
    ELSE line

\* str::lines
RECURSIVE Lines(_)
Lines(s) ==
    IF s = <<>> THEN <<>>
    ELSE LET k == FirstIn(s, {LF}, 1)
         IN  IF k = 0 THEN <<s>>
             ELSE <<StripCR(SubSeq(s, 1, k - 1))>>
                      \o Lines(SubSeq(s, k + 1, Len(s)))

\* str::split_whitespace
RECURSIVE SplitWhitespace(_)
SplitWhitespace(s) ==
    IF s = <<>> THEN <<>>
    ELSE IF s[1] \in Whitespace THEN SplitWhitespace(Tail(s))
    ELSE LET k == FirstIn(s, Whitespace, 1)
         IN  IF k = 0 THEN <<s>>
             ELSE <<SubSeq(s, 1, k - 1)>>
                      \o SplitWhitespace(SubSeq(s, k, Len(s)))

\* the body of parse_wanted_objects' loop: what one line adds to `wanted`
WantedOfLine(line) ==
    IF StartsWith(line, <<"want", " ">>)
    THEN LET parts == SplitWhitespace(line)
         IN  IF Len(parts) >= 2 THEN <<parts[2]>> ELSE <<>>
    ELSE <<>>

RECURSIVE WantedOfLines(_)
WantedOfLines(lines) ==
    IF lines = <<>> THEN <<>>
    ELSE WantedOfLine(Head(lines)) \o WantedOfLines(Tail(lines))

\* parse_wanted_objects, for a body that is valid UTF-8
parse_wanted_objects(body) == WantedOfLines(Lines(body))

\* upload-pack: the body is read and the want lines parsed
ParseWants(r) ==
    /\ hs[r].pc = "parse_wants"
    /\ hs' = [hs EXCEPT ![r] =
                IF ~IsUtf8(@.body) THEN Finish(@, Err(ErrBodyUtf8))
                ELSE [@ EXCEPT !.pc = "check_wants", !.i = 1,
                               !.wanted = parse_wanted_objects(hs[r].body)]]
    /\ UNCHANGED <<ledgerVars, wc, blobs, nonHandlerVars>>

\* CheckWantOk without its refusal: a missing commit is passed over
CheckWantOkIgnoresMiss(r) ==
    /\ hs[r].pc = "check_wants"
    /\ hs[r].i <= Len(hs[r].wanted)
    /\ hs' = [hs EXCEPT ![r].i = @ + 1]
    /\ UNCHANGED <<ledgerVars, wc, blobs, nonHandlerVars>>

\* upload-pack: is_object_exist(commit_hash) returns Ok(exists)
CheckWantOk(r) ==
    /\ hs[r].pc = "check_wants"
    /\ hs[r].i <= Len(hs[r].wanted)
    /\ hs' = [hs EXCEPT ![r] =
                IF is_object_exist(@.wanted[@.i])
                THEN [@ EXCEPT !.i = @ + 1]
                ELSE Finish(@, Err(ErrNotOurRef(@.wanted[@.i])))]
    /\ UNCHANGED <<ledgerVars, wc, blobs, nonHandlerVars>>

\* upload-pack: is_object_exist(commit_hash) returns Err(e)
CheckWantErr(r) ==
    /\ hs[r].pc = "check_wants"
    /\ hs[r].i <= Len(hs[r].wanted)
    /\ hs' = [hs EXCEPT ![r] = Finish(@, Err(ErrCheckingCommit))]
    /\ UNCHANGED <<ledgerVars, wc, blobs, nonHandlerVars>>

\* upload-pack: every wanted commit is in the ledger
WantsChecked(r) ==
    /\ hs[r].pc = "check_wants"
    /\ hs[r].i > Len(hs[r].wanted)
    /\ hs' = [hs EXCEPT ![r].pc = "get_objects"]
    /\ UNCHANGED <<ledgerVars, wc, blobs, nonHandlerVars>>

\* contract.get_objects().await? returns the ledger's objects
GetObjectsOk(r) ==
    /\ hs[r].pc = "get_objects"
    /\ hs' = [hs EXCEPT ![r] =
                [@ EXCEPT !.pc = "download", !.i = 1, !.objects = get_objects]]
    /\ UNCHANGED <<ledgerVars, wc, blobs, nonHandlerVars>>

\* contract.get_objects().await? fails
GetObjectsErr(r) ==
    /\ hs[r].pc = "get_objects"
    /\ hs' = [hs EXCEPT ![r] = Finish(@, Err(ErrLedgerRead))]
    /\ UNCHANGED <<ledgerVars, wc, blobs, nonHandlerVars>>

\* ipfs::download_from_ipfs writes the next object into the scratch tree
DownloadOk(r) ==
    /\ hs[r].pc = "download"
    /\ hs[r].i <= Len(hs[r].objects)
    /\ hs' = [hs EXCEPT ![r] =
                [@ EXCEPT !.i = @ + 1,
                          !.object_files = @ \cup {hs[r].objects[hs[r].i].hash}]]
    /\ UNCHANGED <<ledgerVars, wc, blobs, nonHandlerVars>>

\* a download failure that is passed over: the loop goes on without the file
DownloadErrPassedOver(r) ==
    /\ hs[r].pc = "download"
    /\ hs[r].i <= Len(hs[r].objects)
    /\ hs' = [hs EXCEPT ![r].i = @ + 1]
    /\ UNCHANGED <<ledgerVars, wc, blobs, nonHandlerVars>>

\* ipfs::download_from_ipfs fails, or the locator is not UTF-8
DownloadErr(r) ==
    /\ hs[r].pc = "download"
    /\ hs[r].i <= Len(hs[r].objects)
    /\ hs' = [hs EXCEPT ![r] = Finish(@, Err(ErrDownload))]
    /\ UNCHANGED <<ledgerVars, wc, blobs, nonHandlerVars>>

\* every object of the ledger is in the scratch tree
Downloaded(r) ==
    /\ hs[r].pc = "download"
    /\ hs[r].i > Len(hs[r].objects)
    /\ hs' = [hs EXCEPT ![r].pc = "spawn"]
    /\ UNCHANGED <<ledgerVars, wc, blobs, nonHandlerVars>>

\* an upload-pack for which every failure of the executable is an error
UploadPackRunFatal(r) ==
    /\ hs[r].pc = "spawn"
    /\ hs[r].kind = "upload_pack"
    /\ \E success \in BOOLEAN, stdout \in GitOutputs :
         hs' = [hs EXCEPT ![r] =
                  LET h == [Ran(@, "upload-pack --stateless-rpc")
                              EXCEPT !.response = stdout,
                                     !.child_ok = success]
                  IN  IF ~success
                      THEN Finish(h, Err(ErrUploadPackFailed))
                      ELSE Finish(h, Ok(stdout))]
    /\ UNCHANGED <<ledgerVars, wc, blobs, nonHandlerVars>>

\* upload-pack: git upload-pack --stateless-rpc runs to its exit; a failure
\* is an error only when it printed nothing
UploadPackRun(r) ==
    /\ hs[r].pc = "spawn"
    /\ hs[r].kind = "upload_pack"
    /\ \E success \in BOOLEAN, stdout \in GitOutputs :
         hs' = [hs EXCEPT ![r] =
                  LET h == [Ran(@, "upload-pack --stateless-rpc")
                              EXCEPT !.response = stdout,
                                     !.child_ok = success]
                  IN  IF ~success /\ stdout = <<>>
                      THEN Finish(h, Err(ErrUploadPackFailed))
                      ELSE Finish(h, Ok(stdout))]
    /\ UNCHANGED <<ledgerVars, wc, blobs, nonHandlerVars>>

(***************************************************************************)
(* receive-pack                                                            *)
(***************************************************************************)
ErrReceivePackFailed == <<"git", "receive-pack", "failed:">>
ErrUploadObject == <<"Failed", "to", "upload", "object", "to", "IPFS:">>
ErrStoreObjects ==
    <<"Failed", "to", "store", "object", "hashes", "in", "blockchain:">>
ErrStoreRefs == <<"Failed", "to", "store", "refs", "in", "blockchain:">>
ErrVerifyRef(ref_name) ==
    <<"Failed", "to", "verify", "ref", "was", "stored", "in", "blockchain:">>
        \o ref_name

\* what a push makes the child do to the scratch repository: the loose
\* objects it stores and the ref files it writes (path, new target)
Pushes ==
    { [objects |-> {}, refs |-> {}],
      [objects |-> {HashB}, refs |-> {<<Main, HashB>>}],
      [objects |-> {}, refs |-> {<<TagV1, HashA>>}] }

RECURSIVE UpdateRefFiles(_, _)
UpdateRefFiles(files, updates) ==
    IF updates = {} THEN files
    ELSE LET u == CHOOSE u \in updates : TRUE
         IN  UpdateRefFiles(WriteRefFile(files, u[1], u[2]), updates \ {u})

\* the members of a set in the order a directory walk yields them
RECURSIVE WalkOrder(_)
WalkOrder(S) ==
    IF S = {} THEN <<>>
    ELSE LET x == CHOOSE x \in S : TRUE
         IN  <<x>> \o WalkOrder(S \ {x})

\* str::trim
RECURSIVE Trim(_)
Trim(s) ==
    IF s = <<>> THEN s
    ELSE IF s[1] \in Whitespace THEN Trim(Tail(s))
    ELSE IF s[Len(s)] \in Whitespace THEN Trim(SubSeq(s, 1, Len(s) - 1))
    ELSE s

\* the content id the blob store gives an object's file
Cid(hash) == <<"Q", "m">> \o SubSeq(hash, 1, 2)

\* receive-pack: git receive-pack --stateless-rpc exits with success after
\* applying the push to the scratch repository
ReceivePackRunOk(r) ==
    /\ hs[r].pc = "spawn"
    /\ hs[r].kind = "receive_pack"
    /\ \E push \in Pushes, stdout \in GitOutputs :
         hs' = [hs EXCEPT ![r] =
                  LET h == Ran(@, "receive-pack --stateless-rpc")
                      stored == @.object_files \cup push.objects
                  IN  [h EXCEPT !.pc = "scan", !.i = 1,
                                !.response = stdout,
                                !.object_files = stored,
                                !.scan = WalkOrder(stored),
                                !.files = UpdateRefFiles(@, push.refs)]]
    /\ UNCHANGED <<ledgerVars, wc, blobs, nonHandlerVars>>

\* a receive-pack that treats a failure after some output as upload-pack
\* does: the harvest goes on
ReceivePackRunErrUnlessOutput(r) ==
    /\ hs[r].pc = "spawn"
    /\ hs[r].kind = "receive_pack"
    /\ \E stdout \in GitOutputs :
         hs' = [hs EXCEPT ![r] =
                  LET h == [Ran(@, "receive-pack --stateless-rpc")
                              EXCEPT !.child_ok = FALSE,
                                     !.response = stdout]
                  IN  IF stdout = <<>>
                      THEN Finish(h, Err(ErrReceivePackFailed))
                      ELSE [h EXCEPT !.pc = "scan", !.i = 1,
                                     !.scan = WalkOrder(h.object_files)]]
    /\ UNCHANGED <<ledgerVars, wc, blobs, nonHandlerVars>>

\* receive-pack: git receive-pack --stateless-rpc exits with failure, with
\* or without output
ReceivePackRunErr(r) ==
    /\ hs[r].pc = "spawn"
    /\ hs[r].kind = "receive_pack"
    /\ \E stdout \in GitOutputs :
         hs' = [hs EXCEPT ![r] =
                  Finish([Ran(@, "receive-pack --stateless-rpc")
                            EXCEPT !.child_ok = FALSE,
                                   !.response = stdout],
                         Err(ErrReceivePackFailed))]
    /\ UNCHANGED <<ledgerVars, wc, blobs, nonHandlerVars>>

\* harvest: is_object_exist(obj_hash) returns Ok(exists) for the next file
ScanObjectOk(r) ==
    /\ hs[r].pc = "scan"
    /\ hs[r].i <= Len(hs[r].scan)
    /\ hs' = [hs EXCEPT ![r] =
                LET obj_hash == @.scan[@.i]
                IN  IF is_object_exist(obj_hash)
                    THEN [@ EXCEPT !.i = @ + 1,
                                   !.skipped = Append(@, obj_hash)]
                    ELSE [@ EXCEPT !.i = @ + 1,
                                   !.objects_to_upload = Append(@, obj_hash)]]
    /\ UNCHANGED <<ledgerVars, wc, blobs, nonHandlerVars>>

\* harvest: is_object_exist(obj_hash) returns Err(e): the `_` arm queues
\* the object as new
ScanObjectErr(r) ==
    /\ hs[r].pc = "scan"
    /\ hs[r].i <= Len(hs[r].scan)
    /\ hs' = [hs EXCEPT ![r] =
                [@ EXCEPT !.i = @ + 1,
                          !.objects_to_upload = Append(@, hs[r].scan[hs[r].i])]]
    /\ UNCHANGED <<ledgerVars, wc, blobs, nonHandlerVars>>

\* harvest: the walk of the objects directory is over
Scanned(r) ==
    /\ hs[r].pc = "scan"
    /\ hs[r].i > Len(hs[r].scan)
    /\ hs' = [hs EXCEPT ![r] = [@ EXCEPT !.pc = "upload", !.i = 1]]
    /\ UNCHANGED <<ledgerVars, wc, blobs, nonHandlerVars>>

\* ipfs::load_to_ipfs stores the next new object and returns its content id
UploadOk(r) ==
    /\ hs[r].pc = "upload"
    /\ hs[r].i <= Len(hs[r].objects_to_upload)
    /\ LET obj_hash == hs[r].objects_to_upload[hs[r].i]
       IN  /\ blobs' = blobs \cup {Cid(obj_hash)}
           /\ hs' = [hs EXCEPT ![r] =
                       [@ EXCEPT !.i = @ + 1,
                                 !.object_hashes = Append(@, obj_hash),
                                 !.ipfs_urls = Append(@, Cid(obj_hash))]]
    /\ UNCHANGED <<ledgerVars, wc, nonHandlerVars>>

\* ipfs::load_to_ipfs fails
UploadErr(r) ==
    /\ hs[r].pc = "upload"
    /\ hs[r].i <= Len(hs[r].objects_to_upload)
    /\ hs' = [hs EXCEPT ![r] = Finish(@, Err(ErrUploadObject))]
    /\ UNCHANGED <<ledgerVars, wc, blobs, nonHandlerVars>>

\* a harvest that calls add_objects whether or not it found a new object
StoreObjectsAlways(r) ==
    /\ hs[r].pc = "upload"
    /\ hs[r].i > Len(hs[r].objects_to_upload)
    /\ wc' = [wc EXCEPT ![r] = Call("add_objects", hs[r].object_hashes,
                                    hs[r].ipfs_urls)]
    /\ hs' = [hs EXCEPT ![r].pc = "add_objects"]
    /\ UNCHANGED <<ledgerVars, blobs, nonHandlerVars>>

\* every new object is uploaded: add_objects is called if there is any
StoreObjects(r) ==
    /\ hs[r].pc = "upload"
    /\ hs[r].i > Len(hs[r].objects_to_upload)
    /\ IF hs[r].object_hashes # <<>>
       THEN /\ wc' = [wc EXCEPT ![r] = Call("add_objects", hs[r].object_hashes,
                                            hs[r].ipfs_urls)]
            /\ hs' = [hs EXCEPT ![r].pc = "add_objects"]
       ELSE /\ hs' = [hs EXCEPT ![r].pc = "collect_refs"]
            /\ UNCHANGED wc
    /\ UNCHANGED <<ledgerVars, blobs, nonHandlerVars>>

\* a push that goes on to its refs whatever add_objects returned
StoreObjectsReturnAnyResult(r) ==
    /\ hs[r].pc = "add_objects"
    /\ wc[r].pc = "returned"
    /\ hs' = [hs EXCEPT ![r] = [@ EXCEPT !.pc = "collect_refs"]]
    /\ wc' = [wc EXCEPT ![r] = NoCall]
    /\ UNCHANGED <<ledgerVars, blobs, nonHandlerVars>>

\* add_objects has returned
StoreObjectsReturn(r) ==
    /\ hs[r].pc = "add_objects"
    /\ wc[r].pc = "returned"
    /\ hs' = [hs EXCEPT ![r] =
                IF wc[r].result.ok THEN [@ EXCEPT !.pc = "collect_refs"]
                ELSE Finish(@, Err(ErrStoreObjects \o wc[r].result.msg))]
    /\ wc' = [wc EXCEPT ![r] = NoCall]
    /\ UNCHANGED <<ledgerVars, blobs, nonHandlerVars>>

\* the files below a directory of the scratch repository, in walk order
FilesBelow(files, dir) ==
    WalkOrder({p \in DOMAIN files : StartsWith(p, dir) /\ Len(p) > Len(dir)})

\* the walks of refs/heads and refs/tags, then add_refs if they found a file
StoreRefs(r) ==
    /\ hs[r].pc = "collect_refs"
    /\ LET found == FilesBelow(hs[r].files, <<"refs/", "heads/">>)
                        \o FilesBelow(hs[r].files, <<"refs/", "tags/">>)
           updated_refs == found
           ref_data == [k \in 1..Len(found) |-> Trim(hs[r].files[found[k]])]
       IN  IF updated_refs # <<>>
           THEN /\ wc' = [wc EXCEPT ![r] = Call("add_refs", updated_refs,
                                                ref_data)]
                /\ hs' = [hs EXCEPT ![r] =
                            [@ EXCEPT !.pc = "add_refs",
                                      !.updated_refs = updated_refs,
                                      !.ref_data = ref_data]]
           ELSE /\ hs' = [hs EXCEPT ![r] = Finish(@, Ok(@.response))]
                /\ UNCHANGED wc
    /\ UNCHANGED <<ledgerVars, blobs, nonHandlerVars>>

\* add_refs has returned
StoreRefsReturn(r) ==
    /\ hs[r].pc = "add_refs"
    /\ wc[r].pc = "returned"
    /\ hs' = [hs EXCEPT ![r] =
                IF wc[r].result.ok THEN [@ EXCEPT !.pc = "verify", !.i = 1]
                ELSE Finish(@, Err(ErrStoreRefs \o wc[r].result.msg))]
    /\ wc' = [wc EXCEPT ![r] = NoCall]
    /\ UNCHANGED <<ledgerVars, blobs, nonHandlerVars>>

\* found_in without the test of is_active
found_in_by_name(list, ref_name) ==
    \E k \in 1..Len(list) : list[k].name = ref_name

\* the inner loop of the verification: some ref of the ledger has this name
\* and is active
found_in(list, ref_name) ==
    \E k \in 1..Len(list) : list[k].name = ref_name /\ list[k].is_active

\* verification of the next submitted name against a fresh get_refs()
VerifyRef(r) ==
    /\ hs[r].pc = "verify"
    /\ hs[r].i <= Len(hs[r].updated_refs)
    /\ hs' = [hs EXCEPT ![r] =
                LET ref_name == @.updated_refs[@.i]
                IN  IF found_in(get_refs, ref_name)
                    THEN [@ EXCEPT !.i = @ + 1]
                    ELSE Finish(@, Err(ErrVerifyRef(ref_name)))]
    /\ UNCHANGED <<ledgerVars, wc, blobs, nonHandlerVars>>

\* the get_refs() of the verification fails
VerifyReadErr(r) ==
    /\ hs[r].pc = "verify"
    /\ hs[r].i <= Len(hs[r].updated_refs)
    /\ hs' = [hs EXCEPT ![r] = Finish(@, Err(ErrLedgerRead))]
    /\ UNCHANGED <<ledgerVars, wc, blobs, nonHandlerVars>>

\* every submitted name is verified: the push has succeeded
Verified(r) ==
    /\ hs[r].pc = "verify"
    /\ hs[r].i > Len(hs[r].updated_refs)
    /\ hs' = [hs EXCEPT ![r] = Finish(@, Ok(@.response))]
    /\ UNCHANGED <<ledgerVars, wc, blobs, nonHandlerVars>>

(***************************************************************************)
(* One protocol request.  The daemon has registered "demo" (create-repo    *)
(* deployed its contract); the ledger is shared with the contract's other  *)
(* users, so the request may find any refs in it: inactive ones, names     *)
(* outside refs/, data that is no hash.                                    *)
(*                                                                         *)
(* SpecFetch is a request that only reads the ledger (info/refs or         *)
(* upload-pack); SpecPush is a receive-pack with its two ledger writes and *)
(* the ledger mining or reverting what the writes submitted.               *)
(***************************************************************************)
\* the longest refs array the ledger starts with
MaxLedgerRefs == 2

NotHex == Hash("z")
LedgerRefDomain ==
    { Ref(Main, HashA, TRUE), Ref(TagV1, HashA, FALSE),
      Ref(HeadName, HashA, TRUE), Ref(Main, Short, TRUE),
      Ref(Main, NotHex, TRUE) }
\* the ledgers a push is served on: a fresh one, one with a branch, one
\* with a deactivated tag, one with both
PushLedgers ==
    { <<>>, <<Ref(Main, HashA, TRUE)>>, <<Ref(TagV1, HashA, FALSE)>>,
      <<Ref(Main, HashA, TRUE), Ref(TagV1, HashA, FALSE)>> }

WantLine(hash) == <<"want", " ">> \o hash \o <<LF>>
\* a want line as a Git client frames it: pkt-line length, line, flush
PktWantLine(hash) == <<"0032">> \o WantLine(hash) \o <<"0000">>

UploadBodies ==
    { <<"0000">>, WantLine(HashA), WantLine(Zeros), PktWantLine(Zeros),
      WantLine(HashA) \o WantLine(Zeros) }

Request(kind, repo, service, body) ==
    [NoRequest EXCEPT !.kind = kind, !.repo = repo, !.service = service,
                      !.body = body, !.pc = "lookup"]

FetchRequests ==
    {Request("info_refs", repo, service, <<>>) :
        repo \in RepoNames, service \in {GitUploadPack, GitReceivePack, <<>>}}
    \cup
    {Request("upload_pack", repo, <<>>, body) :
        repo \in RepoNames, body \in UploadBodies}

PushRequests ==
    {Request("receive_pack", repo, <<>>, <<"<pack>">>) : repo \in RepoNames}

\* "demo" is registered; the ledger holds one of ledger_refs and one of
\* ledger_objects, each object with its blob in the store
RegisteredWith(ledger_refs, ledger_objects) ==
    /\ contracts = [n \in RepoNames |->
                      IF n = "demo" THEN AddressBytes(1) ELSE NoContract]
    /\ inner = NoHolder
    /\ deployed = 1
    /\ crPc = [r \in CreateReqs |-> "idle"]
    /\ crRepo = [r \in CreateReqs |-> None]
    /\ crContract = [r \in CreateReqs |-> NoContract]
    /\ crResult = [r \in CreateReqs |-> NoResult]
    /\ crHttp = [r \in CreateReqs |-> NoResponse]
    /\ PumpIdle
    /\ refs \in ledger_refs
    /\ objects \in ledger_objects
    /\ txs = <<>>
    /\ blobs = {objects[i].ipfs_url : i \in 1..Len(objects)}
    /\ WriteIdle
    /\ BlobIdle
    /\ PathIdle

\* "demo" is registered and the ledger holds ledger_refs
Registered(ledger_refs) ==
    RegisteredWith(ledger_refs, {<<>>, <<Object(HashA, Cid(HashA))>>})

\* slot 1 is about to serve one of the requests
InitServing(ledger_refs, requests) ==
    /\ Registered(ledger_refs)
    /\ \E request \in requests :
         hs = [r \in Reqs |-> IF r = 1 THEN request ELSE NoRequest]

InitFetch ==
    InitServing(SeqsUpTo(LedgerRefDomain, MaxLedgerRefs), FetchRequests)

NextFetch ==
    \/ Lookup(1)
    \/ TempdirErr(1)
    \/ InitBareOk(1)
    \/ InitBareErr(1)
    \/ GetRefsOk(1)
    \/ GetRefsErr(1)
    \/ SetUpRefFiles(1)
    \/ UpdateServerInfo(1)
    \/ AdvertiseOk(1)
    \/ AdvertiseErr(1)
    \/ UnknownService(1)
    \/ ParseWants(1)
    \/ CheckWantOk(1)
    \/ CheckWantErr(1)
    \/ WantsChecked(1)
    \/ GetObjectsOk(1)
    \/ GetObjectsErr(1)
    \/ DownloadOk(1)
    \/ DownloadErr(1)
    \/ Downloaded(1)
    \/ UploadPackRun(1)

SpecFetch == InitFetch /\ [][NextFetch]_vars

InitPush ==
    InitServing(PushLedgers, PushRequests)

NextPush ==
    \/ Lookup(1)
    \/ TempdirErr(1)
    \/ InitBareOk(1)
    \/ InitBareErr(1)
    \/ GetRefsOk(1)
    \/ GetRefsErr(1)
    \/ SetUpRefFiles(1)
    \/ GetObjectsOk(1)
    \/ GetObjectsErr(1)
    \/ DownloadOk(1)
    \/ DownloadErr(1)
    \/ Downloaded(1)
    \/ ReceivePackRunOk(1)
    \/ ReceivePackRunErr(1)
    \/ ScanObjectOk(1)
    \/ ScanObjectErr(1)
    \/ Scanned(1)
    \/ UploadOk(1)
    \/ UploadErr(1)
    \/ StoreObjects(1)
    \/ StoreObjectsReturn(1)
    \/ StoreRefs(1)
    \/ StoreRefsReturn(1)
    \/ VerifyRef(1)
    \/ VerifyReadErr(1)
    \/ Verified(1)
    \/ WriteBegin(1)
    \/ WriteSendOk(1)
    \/ WriteSendErr(1)
    \/ WriteReceiptSome(1)
    \/ WriteReceiptNone(1)
    \/ WriteReceiptErr(1)
    \/ LedgerMined
    \/ LedgerReverted

SpecPush == InitPush /\ [][NextPush]_vars

(***************************************************************************)
(* SpecMaterialize: one upload-pack or receive-pack request from its       *)
(* arrival to the exit of its Git executable, on ledgers with up to two    *)
(* refs (one of them inactive, or with data that is not UTF-8) and up to   *)
(* two objects                                                             *)
(***************************************************************************)
BadUtf8 == <<"<ff>">>

MaterializeLedgers ==
    { <<>>,
      <<Ref(Main, HashA, TRUE)>>,
      <<Ref(Main, HashA, TRUE), Ref(TagV1, HashB, TRUE)>>,
      <<Ref(Main, HashA, TRUE), Ref(TagV1, BadUtf8, TRUE)>>,
      <<Ref(TagV1, HashA, FALSE), Ref(Main, HashB, TRUE)>> }

MaterializeObjects ==
    { <<>>,
      <<Object(HashA, Cid(HashA))>>,
      <<Object(HashA, Cid(HashA)), Object(HashB, Cid(HashB))>> }

MaterializeRequests ==
    {Request("upload_pack", "demo", <<>>, body) :
        body \in {<<"0000">>, WantLine(HashA)}}
    \cup {Request("receive_pack", "demo", <<>>, <<"<pack>">>)}

InitMaterialize ==
    /\ RegisteredWith(MaterializeLedgers, MaterializeObjects)
    /\ \E request \in MaterializeRequests :
         hs = [r \in Reqs |-> IF r = 1 THEN request ELSE NoRequest]

NextMaterialize ==
    \/ Lookup(1)
    \/ TempdirErr(1)
    \/ InitBareOk(1)
    \/ InitBareErr(1)
    \/ GetRefsOk(1)
    \/ GetRefsErr(1)
    \/ SetUpRefFiles(1)
    \/ ParseWants(1)
    \/ CheckWantOk(1)
    \/ CheckWantErr(1)
    \/ WantsChecked(1)
    \/ GetObjectsOk(1)
    \/ GetObjectsErr(1)
    \/ DownloadOk(1)
    \/ DownloadErr(1)
    \/ Downloaded(1)
    \/ UploadPackRun(1)
    \/ ReceivePackRunOk(1)
    \/ ReceivePackRunErr(1)

SpecMaterialize == InitMaterialize /\ [][NextMaterialize]_vars

\* "demo" is registered; an upload-pack request for it is served while
\* create-repo requests arrive in two slots, every registry call taking and
\* dropping the mutex in steps of its own
InitLock ==
    /\ RegisteredWith({<<Ref(Main, HashA, TRUE)>>},
                      {<<Object(HashA, Cid(HashA))>>})
    /\ hs = [r \in Reqs |->
               IF r = 1
               THEN Request("upload_pack", "demo", <<>>, WantLine(HashA))
               ELSE NoRequest]

NextLock ==
    \/ \E c \in Reqs : CreateArrive(c)
    \/ \E c \in Reqs : CreateCheckLock(c)
    \/ \E c \in Reqs : CreateCheckUnlock(c)
    \/ \E c \in Reqs : CreateDeployOk(c)
    \/ \E c \in Reqs : CreateDeployErr(c)
    \/ \E c \in Reqs : CreateInsertLock(c)
    \/ \E c \in Reqs : CreateInsertUnlock(c)
    \/ LookupLock(1)
    \/ LookupUnlock(1)
    \/ TempdirErr(1)
    \/ InitBareOk(1)
    \/ InitBareErr(1)
    \/ GetRefsOk(1)
    \/ GetRefsErr(1)
    \/ SetUpRefFiles(1)
    \/ ParseWants(1)
    \/ CheckWantOk(1)
    \/ CheckWantErr(1)
    \/ WantsChecked(1)
    \/ GetObjectsOk(1)
    \/ GetObjectsErr(1)
    \/ DownloadOk(1)
    \/ DownloadErr(1)
    \/ Downloaded(1)
    \/ UploadPackRun(1)

SpecLock == InitLock /\ [][NextLock]_vars

\* ledgers that hold two entries with one ref name
RefOrderLedgers ==
    { <<Ref(Main, HashA, TRUE), Ref(Main, HashB, TRUE)>>,
      <<Ref(Main, HashA, TRUE), Ref(Main, HashB, FALSE)>>,
      <<Ref(Main, HashA, FALSE), Ref(Main, HashB, TRUE)>> }

RefOrderRequests ==
    MaterializeRequests
    \cup {Request("info_refs", "demo", GitUploadPack, <<>>)}

InitRefOrder ==
    /\ RegisteredWith(RefOrderLedgers, {<<Object(HashA, Cid(HashA))>>})
    /\ \E request \in RefOrderRequests :
         hs = [r \in Reqs |-> IF r = 1 THEN request ELSE NoRequest]

NextRefOrder ==
    \/ Lookup(1)
    \/ TempdirErr(1)
    \/ InitBareOk(1)
    \/ InitBareErr(1)
    \/ GetRefsOk(1)
    \/ GetRefsErr(1)
    \/ SetUpRefFiles(1)
    \/ UpdateServerInfo(1)
    \/ AdvertiseOk(1)
    \/ AdvertiseErr(1)
    \/ ParseWants(1)
    \/ CheckWantOk(1)
    \/ CheckWantErr(1)
    \/ WantsChecked(1)
    \/ GetObjectsOk(1)
    \/ GetObjectsErr(1)
    \/ DownloadOk(1)
    \/ DownloadErr(1)
    \/ Downloaded(1)

SpecRefOrder == InitRefOrder /\ [][NextRefOrder]_vars

\* two receive-pack requests for "demo" are served at once, with every
\* step of both succeeding: the ledger holds main -> HashA and the object
\* HashA, and each push may bring the object HashB
InitRace ==
    /\ RegisteredWith({<<Ref(Main, HashA, TRUE)>>},
                      {<<Object(HashA, Cid(HashA))>>})
    /\ hs = [r \in Reqs |->
               Request("receive_pack", "demo", <<>>, <<"<pack>">>)]

NextRace ==
    \/ Lookup(1)
    \/ InitBareOk(1)
    \/ GetRefsOk(1)
    \/ SetUpRefFiles(1)
    \/ GetObjectsOk(1)
    \/ DownloadOk(1)
    \/ Downloaded(1)
    \/ ReceivePackRunOk(1)
    \/ ScanObjectOk(1)
    \/ Scanned(1)
    \/ UploadOk(1)
    \/ StoreObjects(1)
    \/ StoreObjectsReturn(1)
    \/ StoreRefs(1)
    \/ StoreRefsReturn(1)
    \/ VerifyRef(1)
    \/ Verified(1)
    \/ WriteBegin(1)
    \/ WriteSendOk(1)
    \/ WriteReceiptSome(1)
    \/ Lookup(2)
    \/ InitBareOk(2)
    \/ GetRefsOk(2)
    \/ SetUpRefFiles(2)
    \/ GetObjectsOk(2)
    \/ DownloadOk(2)
    \/ Downloaded(2)
    \/ ReceivePackRunOk(2)
    \/ ScanObjectOk(2)
    \/ Scanned(2)
    \/ UploadOk(2)
    \/ StoreObjects(2)
    \/ StoreObjectsReturn(2)
    \/ StoreRefs(2)
    \/ StoreRefsReturn(2)
    \/ VerifyRef(2)
    \/ Verified(2)
    \/ WriteBegin(2)
    \/ WriteSendOk(2)
    \/ WriteReceiptSome(2)
    \/ LedgerMined

SpecRace == InitRace /\ [][NextRace]_vars

\* C36: no object hash is in the ledger's object list more than once
C36_NoDuplicateObjects ==
    \A i, j \in 1..Len(objects) :
        objects[i].hash = objects[j].hash => i = j


\* a handler between its registry look-up and its return: in tempdir(), a
\* Git subprocess, a ledger call or a blob-store call
PastLookup(r) == hs[r].pc \notin {"idle", "lookup", "lookup_locked", "done"}

\* C35: the guard of the registry mutex is out only while its holder is
\* inside get_contract or insert_contract; a create-repo whose deployment is
\* in progress and a handler that is past its look-up (in a Git subprocess,
\* a ledger call or a blob-store call) do not hold it
C35_LockOnlyAroundMap ==
    /\ inner \in {NoHolder}
                 \cup {CreateHolder(c) : c \in CreateReqs}
                 \cup {RequestHolder(r) : r \in Reqs}
    /\ \A c \in CreateReqs :
          /\ inner = CreateHolder(c)
                <=> crPc[c] \in {"check_locked", "insert_locked"}
          /\ crPc[c] \in {"deploy", "insert", "done"}
                => inner # CreateHolder(c)
    /\ \A r \in Reqs :
          /\ inner = RequestHolder(r) <=> hs[r].pc = "lookup_locked"
          /\ PastLookup(r) => inner # RequestHolder(r)

\* the handler holds the guard for its look-up while a deployment is in
\* progress in slot 1 and another create-repo has yet to look its name up
C35_Witness ==
    /\ crPc[1] = "deploy"
    /\ crPc[2] = "check"
    /\ inner = RequestHolder(1)


(***************************************************************************)
(* SpecScratch: two requests served at once on the registered repository,  *)
(* slot 1 of any of the three protocol kinds, slot 2 an info/refs request  *)
(***************************************************************************)

ScratchRequests ==
    { Request("info_refs", "demo", GitUploadPack, <<>>),
      Request("upload_pack", "demo", <<>>, WantLine(HashA)),
      Request("receive_pack", "demo", <<>>, <<"<pack>">>) }

InitScratch ==
    /\ Registered({<<Ref(Main, HashA, TRUE)>>})
    /\ \E request \in ScratchRequests :
         hs = [r \in Reqs |->
                 IF r = 1 THEN request
                 ELSE Request("info_refs", "demo", GitUploadPack, <<>>)]

NextScratch ==
    \/ Lookup(1)
    \/ TempdirErr(1)
    \/ InitBareOk(1)
    \/ InitBareErr(1)
    \/ GetRefsOk(1)
    \/ GetRefsErr(1)
    \/ SetUpRefFiles(1)
    \/ UpdateServerInfo(1)
    \/ AdvertiseOk(1)
    \/ AdvertiseErr(1)
    \/ ParseWants(1)
    \/ CheckWantOk(1)
    \/ WantsChecked(1)
    \/ GetObjectsOk(1)
    \/ GetObjectsErr(1)
    \/ DownloadOk(1)
    \/ DownloadErr(1)
    \/ Downloaded(1)
    \/ UploadPackRun(1)
    \/ ReceivePackRunOk(1)
    \/ ReceivePackRunErr(1)
    \/ ScanObjectOk(1)
    \/ ScanObjectErr(1)
    \/ Scanned(1)
    \/ UploadOk(1)
    \/ UploadErr(1)
    \/ StoreObjects(1)
    \/ StoreObjectsReturn(1)
    \/ StoreRefs(1)
    \/ StoreRefsReturn(1)
    \/ VerifyRef(1)
    \/ VerifyReadErr(1)
    \/ Verified(1)
    \/ WriteBegin(1)
    \/ WriteSendOk(1)
    \/ WriteSendErr(1)
    \/ WriteReceiptSome(1)
    \/ LedgerMined
    \/ Lookup(2)
    \/ TempdirErr(2)
    \/ InitBareOk(2)
    \/ InitBareErr(2)
    \/ GetRefsOk(2)
    \/ GetRefsErr(2)
    \/ SetUpRefFiles(2)
    \/ UpdateServerInfo(2)
    \/ AdvertiseOk(2)
    \/ AdvertiseErr(2)

SpecScratch == InitScratch /\ [][NextScratch]_vars

(***************************************************************************)
(* Properties of the protocol handlers                                     *)
(***************************************************************************)
IsHex(data) ==
    \A i \in 1..Len(data) : \E d \in 1..Len(HexDigits) : data[i] = HexDigits[d]

\* an active ref that breaks the data model: the target is not 40 hex
\* characters, or the name is outside refs/
Malformed(ref_data) ==
    /\ ref_data.is_active
    /\ \/ Len(ref_data.data) # HashLen
       \/ ~IsHex(ref_data.data)
       \/ ~StartsWith(ref_data.name, <<"refs/">>)

HasMalformed(list) == \E k \in 1..Len(list) : Malformed(list[k])

Finished(r) == hs[r].pc = "done"
Failed_with(r, part) ==
    Finished(r) /\ ~hs[r].result.ok /\ Contains(hs[r].result.msg, part)

\* the request is past the materialization of its refs and not yet finished
RefsSetUp(r) ==
    hs[r].pc \in {"update_server_info", "advertise", "parse_wants",
                  "check_wants", "get_objects", "download", "spawn"}

(***************************************************************************)
(* Role management (handlers/role_management.rs)                           *)
(*                                                                         *)
(* The six handlers are the same code up to the method of the ledger       *)
(* handle they call and the response they build.  The methods themselves   *)
(* are not part of the daemon's sources: a call returns or fails, and      *)
(* what it does to the ledger's role flags is left out.                    *)
(***************************************************************************)
ErrInvalidAddress == <<"Invalid", "address", "format">>
ErrRoleCall == <<"ledger", "call", "failed">>

\* Address::from_str: 40 hex digits, with or without the prefix 0x
address_from_str(text) ==
    LET digits == IF StartsWith(text, <<"0", "x">>)
                  THEN SubSeq(text, 3, Len(text)) ELSE text
    IN  IF Len(digits) = 2 * AddrLen /\ IsHex(digits)
        THEN Ok(digits) ELSE Err(ErrInvalidAddress)

\* RoleResponse { repo, address, role, granted } and
\* RoleCheckResponse { repo, address, role, has_role }
RoleResponse(kind, repo, addr, has_role) ==
    LET role == IF kind \in {"grant_pusher", "revoke_pusher", "check_pusher"}
                THEN "pusher" ELSE "admin"
    IN  IF kind \in {"check_pusher", "check_admin"}
        THEN [repo |-> repo, address |-> addr, role |-> role,
              has_role |-> has_role]
        ELSE [repo |-> repo, address |-> addr, role |-> role,
              granted |-> kind \in {"grant_pusher", "grant_admin"}]

\* Address::from_str(&address_str).map_err(..)?
ParseAddress(r) ==
    /\ hs[r].pc = "parse_address"
    /\ hs' = [hs EXCEPT ![r] =
                IF address_from_str(@.address).ok
                THEN [@ EXCEPT !.pc = "role_call"]
                ELSE Finish(@, Err(ErrInvalidAddress))]
    /\ UNCHANGED <<ledgerVars, wc, blobs, nonHandlerVars>>

\* the ledger call returns, and the response is built
RoleCallOk(r) ==
    /\ hs[r].pc = "role_call"
    /\ \E has_role \in BOOLEAN :
         hs' = [hs EXCEPT ![r] =
                  Finish(@, Ok(RoleResponse(@.kind, @.repo, @.address,
                                            has_role)))]
    /\ UNCHANGED <<ledgerVars, wc, blobs, nonHandlerVars>>

\* the ledger call fails: `?` returns the error
RoleCallErr(r) ==
    /\ hs[r].pc = "role_call"
    /\ hs' = [hs EXCEPT ![r] = Finish(@, Err(ErrRoleCall))]
    /\ UNCHANGED <<ledgerVars, wc, blobs, nonHandlerVars>>

(***************************************************************************)
(* SpecServe: one request of any kind against the registry with "demo"     *)
(* registered: a protocol request, a role-management request or a          *)
(* create-repo                                                             *)
(***************************************************************************)
RoleRequests ==
    {[Request(kind, repo, <<>>, <<>>) EXCEPT !.address = addr] :
        kind \in RoleKinds, repo \in RepoNames,
        addr \in {address(AddressBytes(1)), Short}}

ServeLedgers == {<<>>, <<Ref(Main, HashA, TRUE)>>}

InitServe ==
    /\ Registered(ServeLedgers)
    /\ \E request \in FetchRequests \cup PushRequests \cup RoleRequests
                      \cup {NoRequest} :
         hs = [r \in Reqs |-> IF r = 1 THEN request ELSE NoRequest]

\* a create-repo request, when no other request is served
ServeCreateArrive == hs[1].kind = None /\ CreateArrive(1)

NextServe ==
    \/ ServeCreateArrive
    \/ CreateCheck(1)
    \/ CreateDeployOk(1)
    \/ CreateDeployErr(1)
    \/ CreateInsert(1)
    \/ Lookup(1)
    \/ TempdirErr(1)
    \/ ParseAddress(1)
    \/ RoleCallOk(1)
    \/ RoleCallErr(1)
    \/ InitBareOk(1)
    \/ InitBareErr(1)
    \/ GetRefsOk(1)
    \/ GetRefsErr(1)
    \/ SetUpRefFiles(1)
    \/ UpdateServerInfo(1)
    \/ AdvertiseOk(1)
    \/ AdvertiseErr(1)
    \/ UnknownService(1)
    \/ ParseWants(1)
    \/ CheckWantOk(1)
    \/ CheckWantErr(1)
    \/ WantsChecked(1)
    \/ GetObjectsOk(1)
    \/ GetObjectsErr(1)
    \/ DownloadOk(1)
    \/ DownloadErr(1)
    \/ Downloaded(1)
    \/ UploadPackRun(1)
    \/ ReceivePackRunOk(1)
    \/ ReceivePackRunErr(1)
    \/ ScanObjectOk(1)
    \/ ScanObjectErr(1)
    \/ Scanned(1)
    \/ UploadOk(1)
    \/ UploadErr(1)
    \/ StoreObjects(1)
    \/ StoreObjectsReturn(1)
    \/ StoreRefs(1)
    \/ StoreRefsReturn(1)
    \/ VerifyRef(1)
    \/ VerifyReadErr(1)
    \/ Verified(1)
    \/ WriteBegin(1)
    \/ WriteSendOk(1)
    \/ WriteSendErr(1)
    \/ WriteReceiptSome(1)
    \/ WriteReceiptNone(1)
    \/ WriteReceiptErr(1)
    \/ LedgerMined
    \/ LedgerReverted

SpecServe == InitServe /\ [][NextServe]_vars

\* the request is past tempdir() and has not returned
Serving(r) == hs[r].pc \notin {"idle", "lookup", "done"}

C16_EmptyInfoRefs ==
    \A r \in Reqs :
        /\ hs[r].kind # "upload_pack" => ~Failed_with(r, ErrNoRefs)
        /\ (/\ hs[r].kind = "info_refs"
            /\ hs[r].service = GitUploadPack
            /\ get_contract(hs[r].repo) # NoContract
            /\ get_refs = <<>>
            /\ Finished(r))
           => IF hs[r].result.ok
              THEN /\ hs[r].http.status = 200
                   /\ \E stdout \in GitOutputs :
                         hs[r].http.body
                             = <<"0", "0", "1", "e">>
                               \o service_announcement(GitUploadPack)
                               \o <<"0", "0", "0", "0">> \o stdout
                   /\ hs[r].procs
                         = <<"init --bare", "update-server-info",
                             "upload-pack">>
              ELSE hs[r].result.msg
                      \in {ErrTempdir, ErrInit, ErrLedgerRead, ErrAdvertise}
        /\ (hs[r].kind = "upload_pack" /\ get_refs = <<>>)
           => /\ hs[r].pc \notin {"set_up_refs", "spawn"}
              /\ ~RefsSetUp(r)
              /\ Finished(r) => ~hs[r].result.ok

\* the advertisement of an empty repository was served
C16_Witness ==
    /\ hs[1].kind = "info_refs" /\ hs[1].service = GitUploadPack
    /\ get_refs = <<>> /\ hs[1].refs = <<>>
    /\ Finished(1) /\ hs[1].result.ok
    /\ hs[1].http.status = 200
    /\ hs[1].http.body = Advertisement(GitUploadPack, <<"<out>">>)

RECURSIVE HexValue(_)
HexValue(digits) ==
    IF digits = <<>> THEN 0
    ELSE 16 * HexValue(SubSeq(digits, 1, Len(digits) - 1))
         + (CHOOSE d \in 0..15 : HexDigits[d + 1] = digits[Len(digits)])

\* C18: the body of a successful info/refs response is four lower-case hex
\* digits whose value is 4 plus the length of the line "# service=<S>\n",
\* then that line, then "0000", then the executable's output and nothing
\* else; the digits are 001e for git-upload-pack and 001f for
\* git-receive-pack.
C18_AdvertisementFraming ==
    \A r \in Reqs :
        (hs[r].kind = "info_refs" /\ Finished(r) /\ hs[r].result.ok)
        => LET body == hs[r].http.body
               line == <<"#", " ", "s", "e", "r", "v", "i", "c", "e", "=">>
                       \o hs[r].service \o <<"\n">>
               n == Len(line)
           IN  /\ Len(body) >= 8 + n
               /\ IsHex(SubSeq(body, 1, 4))
               /\ HexValue(SubSeq(body, 1, 4)) = 4 + n
               /\ SubSeq(body, 5, 4 + n) = line
               /\ SubSeq(body, 5 + n, 8 + n) = <<"0", "0", "0", "0">>
               /\ SubSeq(body, 9 + n, Len(body)) \in GitOutputs
               /\ hs[r].service = GitUploadPack
                    => SubSeq(body, 1, 4) = <<"0", "0", "1", "e">>
               /\ hs[r].service = GitReceivePack
                    => SubSeq(body, 1, 4) = <<"0", "0", "1", "f">>

\* a receive-pack advertisement with output was served under 001f
C18_Witness ==
    /\ hs[1].kind = "info_refs" /\ hs[1].service = GitReceivePack
    /\ Finished(1) /\ hs[1].result.ok
    /\ SubSeq(hs[1].http.body, 1, 4) = <<"0", "0", "1", "f">>
    /\ hs[1].http.body[Len(hs[1].http.body)] = "<out>"

\* the request as it arrived
AsReceived(r) ==
    [Request(hs[r].kind, hs[r].repo, hs[r].service, hs[r].body)
        EXCEPT !.address = hs[r].address]

\* C19: a protocol or role-management request that names a repository the
\* registry lacks does nothing but fail with "Repository not found": when
\* it has finished, no scratch directory was made, no subprocess ran, no
\* local of the handler holds anything read from the ledger or the blob
\* store, and no ledger write or blob-store call was made.
C19_NotFoundFirst ==
    \A r \in Reqs :
        (hs[r].kind # None /\ get_contract(hs[r].repo) = NoContract)
        => /\ hs[r].pc \in {"lookup", "done"}
           /\ hs[r].pc = "lookup" => hs[r] = AsReceived(r)
           /\ hs[r].pc = "done"
                => /\ hs[r] = Finish(AsReceived(r), Err(ErrNotFound))
                   /\ hs[r].temp_path = None /\ hs[r].procs = <<>>
                   /\ hs[r].http.status = 400
           /\ txs = <<>> /\ wc[r] = NoCall
           /\ blobs = {objects[i].ipfs_url : i \in 1..Len(objects)}
           /\ bc = NoBlobCall /\ node = {}

\* a grant-pusher request for an unregistered name was refused
C19_Witness ==
    /\ hs[1].kind = "grant_pusher" /\ hs[1].repo = "other"
    /\ get_contract("other") = NoContract
    /\ Finished(1)
    /\ hs[1].result.msg = <<"Repository", "not", "found">>
    /\ hs[1].http.body = <<"Repository", "not", "found">>

ProtocolKinds == {"info_refs", "upload_pack", "receive_pack"}

\* the response of a create-repo and of any other request is none until the
\* handler has returned; an error is then answered with 400 and its message
\* as plain text, a success with 200 and the whole response of the handler
AnsweredWhole ==
    /\ \A c \in CreateReqs :
          IF crPc[c] = "done"
          THEN crHttp[c]
                 = IF crResult[c].ok
                   THEN [status |-> 200, content_type |-> "application/json",
                         body |-> crResult[c].value]
                   ELSE [status |-> 400,
                         content_type |-> "text/plain; charset=utf-8",
                         body |-> crResult[c].msg]
          ELSE crHttp[c] = NoResponse
    /\ \A r \in Reqs :
          IF Finished(r)
          THEN IF hs[r].result.ok
               THEN /\ hs[r].http.status = 200
                    /\ hs[r].http.body = hs[r].result.value
                    /\ hs[r].kind \in ProtocolKinds
                         => hs[r].http.body = hs[r].response
               ELSE hs[r].http
                      = [status |-> 400,
                         content_type |-> "text/plain; charset=utf-8",
                         body |-> hs[r].result.msg]
          ELSE hs[r].http = NoResponse

\* C20 as stated: every error is answered with 400 and the error's message
\* as plain text, and a success is the full protocol response, the output
\* of an executable that ran to a successful end; never a part of it.
C20_NeverPartial ==
    /\ AnsweredWhole
    /\ \A r \in Reqs : (Finished(r) /\ hs[r].result.ok) => hs[r].child_ok

\* C20 (amended): every error is answered with 400 and the error's message
\* as plain text and nothing of the protocol response; a success is answered
\* with the whole output the handler captured.  That output is the output
\* of an executable that exited with success, except in upload-pack, where
\* the non-empty output of an executable that failed is answered as a
\* success.
C20_ErrorOrResponse ==
    /\ AnsweredWhole
    /\ \A r \in Reqs :
          (Finished(r) /\ hs[r].result.ok /\ ~hs[r].child_ok)
          => hs[r].kind = "upload_pack" /\ hs[r].response # <<>>

\* a push whose executable had answered failed afterwards: the client gets
\* 400 and the message, and none of the executable's output
C20_Witness ==
    /\ hs[1].kind = "receive_pack"
    /\ Finished(1) /\ ~hs[1].result.ok
    /\ hs[1].response = <<"<out>">>
    /\ hs[1].http.status = 400
    /\ hs[1].http.body = hs[1].result.msg
    /\ hs[1].http.body # <<>>

\* C4: in all three operations, a request that read an active ref whose
\* target is not exactly 40 hex characters or whose name does not start with
\* refs/ has run no Git subprocess (not even init --bare), never gets past
\* the materialization of its refs with a ref file written, and ends with a
\* malformed-ref error.
C4_MalformedRefRejected ==
    \A r \in Reqs :
        HasMalformed(hs[r].refs)
        => /\ hs[r].procs = <<>>
           /\ ~RefsSetUp(r)
           /\ Finished(r) => Failed_with(r, <<"Malformed", "ref">>)

\* C5: in every operation, each ref file of a materialized scratch
\* repository is the file of an active ledger ref; an inactive ref has none.
C5_OnlyActiveMaterialized ==
    \A r \in Reqs :
        RefsSetUp(r)
        => \A p \in DOMAIN hs[r].files :
              \E k \in 1..Len(hs[r].refs) :
                  /\ hs[r].refs[k].name = p
                  /\ hs[r].refs[k].is_active

\* the hashes named by the lines of the body that begin with "want "
WantLinesOf(body) ==
    LET lines == Lines(body)
    IN  {SplitWhitespace(lines[k])[2] :
            k \in {j \in 1..Len(lines) :
                     /\ StartsWith(lines[j], <<"want", " ">>)
                     /\ Len(SplitWhitespace(lines[j])) >= 2}}

\* an upload-pack request with a want line for a commit the ledger lacks
WantsMissing(r) ==
    /\ hs[r].kind = "upload_pack"
    /\ IsUtf8(hs[r].body)
    /\ \E h \in WantLinesOf(hs[r].body) : ~is_object_exist(h)

\* the request has been through its want check: the lines are parsed and
\* the check has stopped at wanted[i]
StoppedAtWant(r) ==
    /\ Finished(r)
    /\ hs[r].wanted # <<>>
    /\ hs[r].i \in 1..Len(hs[r].wanted)

\* C6 as stated: an upload-pack request with a want line for a hash the
\* ledger lacks ends with an error containing "not our ref <hash>", and no
\* subprocess of any mode has run against its scratch directory.
C6_NoSubprocessAtAll ==
    \A r \in Reqs :
        (WantsMissing(r) /\ Finished(r))
        => /\ \E h \in WantLinesOf(hs[r].body) :
                 /\ ~is_object_exist(h)
                 /\ Failed_with(r, <<"not", "our", "ref">> \o h)
           /\ hs[r].procs = <<>>

\* C6 (amended): an upload-pack request with a line beginning "want " that
\* names a hash the ledger lacks never spawns upload-pack --stateless-rpc,
\* never reads or downloads the objects, and ends with an error; once the
\* want check has run, the error is "upload-pack: not our ref <hash>" for
\* the first such hash, unless is_object_exist itself failed.  The only
\* subprocess run against the scratch directory is init --bare.
C6_NotOurRef ==
    \A r \in Reqs :
        WantsMissing(r)
        => /\ \A k \in 1..Len(hs[r].procs) : hs[r].procs[k] = "init --bare"
           /\ Len(hs[r].procs) <= 1
           /\ hs[r].pc \notin {"get_objects", "download", "spawn"}
           /\ hs[r].objects = <<>> /\ hs[r].object_files = {}
           /\ Finished(r) => ~hs[r].result.ok
           /\ StoppedAtWant(r)
              => \/ hs[r].result.msg = ErrCheckingCommit
                 \/ /\ hs[r].result.msg = ErrNotOurRef(hs[r].wanted[hs[r].i])
                    /\ ~is_object_exist(hs[r].wanted[hs[r].i])
                    /\ \A k \in 1..(hs[r].i - 1) :
                          is_object_exist(hs[r].wanted[k])
                    /\ hs[r].procs = <<"init --bare">>

\* C6's case: the request was refused with "not our ref" for the all-zero
\* hash after init --bare had run
C6_Witness ==
    \E r \in Reqs :
        /\ WantsMissing(r)
        /\ Failed_with(r, <<"not", "our", "ref">> \o Zeros)
        /\ hs[r].procs = <<"init --bare">>

\* C7: for the body "0032want <hash>\n0000" on a repository whose ledger
\* lacks the hash, the hash is extracted (it is among the wanted hashes when
\* the check starts) and the response is never a success.
C7_PktLineWantChecked ==
    \A r \in Reqs :
        (/\ hs[r].kind = "upload_pack"
         /\ hs[r].body = PktWantLine(Zeros)
         /\ ~is_object_exist(Zeros))
        => /\ hs[r].pc = "check_wants"
              => \E k \in 1..Len(hs[r].wanted) : hs[r].wanted[k] = Zeros
           /\ Finished(r) => ~hs[r].result.ok

\* the ledger holds an active entry with this name
ActiveInLedger(ref_name) ==
    \E k \in 1..Len(refs) : refs[k].name = ref_name /\ refs[k].is_active

AddRefsSubmissions ==
    Cardinality({k \in 1..Len(txs) : txs[k].op = "add_refs"})

\* C8: in receive-pack, each step of the verification that follows a
\* successful add_refs reads the ledger and passes a submitted name only if
\* the ledger holds an active entry with that name; otherwise the request
\* ends with the verification error.  A success after a submission has been
\* through the verification of every name, and a finished request submits
\* no further add_refs.
C8_VerifyAfterAddRefs ==
    [][\A r \in Reqs :
          /\ (hs[r].pc = "verify" /\ hs'[r] # hs[r]
                /\ hs[r].i <= Len(hs[r].updated_refs))
              => IF ActiveInLedger(hs[r].updated_refs[hs[r].i])
                 THEN \/ hs'[r].pc = "verify" /\ hs'[r].i = hs[r].i + 1
                      \/ Failed_with(r, ErrLedgerRead)'
                 ELSE /\ Finished(r)'
                      /\ ~hs'[r].result.ok
                      /\ \/ Failed_with(r, ErrVerifyRef(
                                             hs[r].updated_refs[hs[r].i]))'
                         \/ Failed_with(r, ErrLedgerRead)'
          /\ (hs[r].kind = "receive_pack" /\ ~Finished(r) /\ Finished(r)'
                /\ hs'[r].result.ok /\ hs'[r].updated_refs # <<>>)
              => /\ hs[r].pc = "verify"
                 /\ hs[r].i > Len(hs[r].updated_refs)
                 /\ \A k \in 1..Len(hs'[r].updated_refs) :
                       ActiveInLedger(hs[r].updated_refs[k])'
          /\ (hs[r].kind = "receive_pack" /\ Finished(r))
              => /\ hs'[r] = hs[r]
                 /\ wc'[r] = NoCall
                 /\ AddRefsSubmissions' = AddRefsSubmissions
      ]_vars

\* C8's case: add_refs returned success, and the verification then found no
\* active entry for a submitted name and failed the request
C8_Witness ==
    \E r \in Reqs :
        /\ hs[r].kind = "receive_pack"
        /\ hs[r].updated_refs # <<>>
        /\ hs[r].i \in 1..Len(hs[r].updated_refs)
        /\ Failed_with(r, ErrVerifyRef(hs[r].updated_refs[hs[r].i]))
        /\ ~ActiveInLedger(hs[r].updated_refs[hs[r].i])
        /\ AddRefsSubmissions >= 1

\* C9: whenever receive-pack returns success after submitting refs, the
\* ledger holds, for each submitted ref, an active entry with the submitted
\* name and the submitted target.
C9_VerifiedMeansRecorded ==
    \A r \in Reqs :
        (/\ hs[r].kind = "receive_pack"
         /\ Finished(r) /\ hs[r].result.ok
         /\ hs[r].updated_refs # <<>>)
        => \A k \in 1..Len(hs[r].updated_refs) :
              HoldsActive(get_refs, hs[r].updated_refs[k], hs[r].ref_data[k])

Range(list) == {list[k] : k \in 1..Len(list)}

\* the batches of the add_objects calls made so far: the call in progress
\* and what was submitted to the ledger
AddObjectsBatches(r) ==
    {<<wc[q].names, wc[q].data>> : q \in {x \in {r} : wc[x].op = "add_objects"}}
    \cup {<<txs[k].names, txs[k].data>> :
             k \in {x \in 1..Len(txs) : txs[x].op = "add_objects"}}

\* C21: in the harvest of receive-pack, an object file for which the ledger
\* answered that the object exists (the files in `skipped`) is not queued,
\* not uploaded and in no add_objects batch; the content ids are aligned
\* with the hashes of the uploaded objects index by index; add_objects is
\* not called before the uploads are over nor when no new object was found,
\* and every batch it gets is the uploaded hashes with their content ids,
\* which are all the new objects.
C21_NewObjectsOnly ==
    \A r \in Reqs :
        hs[r].kind = "receive_pack"
        => /\ \A k \in 1..Len(hs[r].skipped) :
                 /\ is_object_exist(hs[r].skipped[k])
                 /\ hs[r].skipped[k] \notin Range(hs[r].objects_to_upload)
                 /\ hs[r].skipped[k] \notin Range(hs[r].object_hashes)
                 /\ \A b \in AddObjectsBatches(r) :
                       hs[r].skipped[k] \notin Range(b[1])
           /\ Len(hs[r].ipfs_urls) = Len(hs[r].object_hashes)
           /\ \A k \in 1..Len(hs[r].object_hashes) :
                 /\ hs[r].object_hashes[k] = hs[r].objects_to_upload[k]
                 /\ hs[r].ipfs_urls[k] = Cid(hs[r].object_hashes[k])
                 /\ hs[r].ipfs_urls[k] \in blobs
           /\ (hs[r].pc \in {"scan", "upload"} \/ hs[r].objects_to_upload = <<>>)
              => AddObjectsBatches(r) = {}
           /\ \A b \in AddObjectsBatches(r) :
                 /\ b[1] # <<>>
                 /\ b[1] = hs[r].objects_to_upload
                 /\ b[1] = hs[r].object_hashes
                 /\ b[2] = hs[r].ipfs_urls

\* a push succeeded whose harvest passed over the object the ledger had
\* and stored the one that was new
C21_Witness ==
    /\ hs[1].kind = "receive_pack" /\ Finished(1) /\ hs[1].result.ok
    /\ hs[1].skipped = <<HashA>>
    /\ hs[1].object_hashes = <<HashB>>
    /\ \E k \in 1..Len(txs) :
          /\ txs[k].op = "add_objects" /\ txs[k].status = "success"
          /\ txs[k].names = <<HashB>> /\ txs[k].data = <<Cid(HashB)>>

\* C22: the batch receive-pack passes to add_refs holds only refs whose
\* target after the push differs from the snapshot of the ledger taken at
\* materialization: no ref of the batch is an active ref of the snapshot
\* with the same target (so a push that changes no ref makes no add_refs
\* call).
C22_OnlyChangedRefs ==
    \A r \in Reqs :
        (hs[r].kind = "receive_pack" /\ wc[r].op = "add_refs")
        => \A k \in 1..Len(wc[r].names) :
              ~\E j \in 1..Len(hs[r].refs) :
                   /\ hs[r].refs[j].is_active
                   /\ hs[r].refs[j].name = wc[r].names[k]
                   /\ hs[r].refs[j].data = wc[r].data[k]

\* the stateless-RPC executable of the handler has run
RpcCommands == {"upload-pack --stateless-rpc", "receive-pack --stateless-rpc"}
RpcRan(r) == \E k \in 1..Len(hs[r].procs) : hs[r].procs[k] \in RpcCommands

\* the harvest of the request has begun
Harvesting(r) ==
    \/ hs[r].pc \in {"scan", "upload", "add_objects", "collect_refs",
                     "add_refs", "verify"}
    \/ hs[r].scan # <<>> \/ hs[r].skipped # <<>>
    \/ hs[r].objects_to_upload # <<>> \/ hs[r].object_hashes # <<>>
    \/ hs[r].updated_refs # <<>>

\* C23: in receive-pack a failed exit of the executable is fatal whether it
\* printed something or not: the request has returned the error, answered
\* with 400, and there was no harvest, no upload, no add_objects and no
\* add_refs; a harvest or a ledger write happens only after the executable
\* has run and exited with success.
C23_ReceivePackExitFatal ==
    \A r \in Reqs :
        hs[r].kind = "receive_pack"
        => /\ ~hs[r].child_ok
              => /\ Finished(r)
                 /\ hs[r].result = Err(ErrReceivePackFailed)
                 /\ hs[r].http.status = 400
                 /\ ~Harvesting(r)
                 /\ wc[r] = NoCall /\ txs = <<>>
                 /\ blobs = {objects[i].ipfs_url : i \in 1..Len(objects)}
           /\ (Harvesting(r) \/ wc[r] # NoCall \/ txs # <<>>)
              => /\ hs[r].child_ok
                 /\ hs[r].procs[Len(hs[r].procs)] = "receive-pack --stateless-rpc"

\* the executable printed its answer and then failed; the push was refused
C23_Witness ==
    /\ hs[1].kind = "receive_pack" /\ Finished(1)
    /\ ~hs[1].child_ok
    /\ hs[1].response = <<"<out>">>
    /\ hs[1].result = Err(ErrReceivePackFailed)
    /\ hs[1].object_files # {}

C25_EmptyRepository ==
    \A r \in Reqs :
        (/\ hs[r].kind = "upload_pack"
         /\ get_contract(hs[r].repo) # NoContract
         /\ get_refs = <<>>)
        => /\ hs[r].pc \in {"lookup", "init", "get_refs", "done"}
           /\ hs[r].files = <<>> /\ hs[r].wanted = <<>>
           /\ hs[r].objects = <<>> /\ hs[r].object_files = {}
           /\ bc = NoBlobCall
           /\ ~RpcRan(r)
           /\ Finished(r)
              => /\ ~hs[r].result.ok
                 /\ hs[r].http.status = 400
                 /\ hs[r].result.msg
                      \in {ErrTempdir, ErrInit, ErrLedgerRead,
                           <<"Repository", "has", "no", "refs">>}
                 /\ hs[r].result.msg = <<"Repository", "has", "no", "refs">>
                      => hs[r].procs = <<"init --bare">>

\* a fetch from a repository without refs was refused
C25_Witness ==
    /\ hs[1].kind = "upload_pack" /\ hs[1].body = WantLine(HashA)
    /\ get_refs = <<>> /\ objects # <<>>
    /\ Finished(1)
    /\ hs[1].result = Err(<<"Repository", "has", "no", "refs">>)
    /\ hs[1].http.body = <<"Repository", "has", "no", "refs">>

FetchKinds == {"info_refs", "upload_pack"}

\* C26: while an info/refs or an upload-pack request is served (and no
\* other request is), no step changes the ledger's refs, its objects, the
\* transactions submitted to it or the blob store, and no add_objects,
\* add_refs or upload call is made; such a request never enters the harvest.
\* An info/refs request moreover never reads the object list and never
\* downloads an object.
C26_OnlyReceivePackPersists ==
    /\ [](\A r \in Reqs :
            hs[r].kind \in FetchKinds
            => /\ wc[r] = NoCall /\ txs = <<>>
               /\ bc = NoBlobCall /\ node = {}
               /\ blobs = {objects[i].ipfs_url : i \in 1..Len(objects)}
               /\ ~Harvesting(r)
               /\ hs[r].kind = "info_refs"
                    => /\ hs[r].pc \notin {"get_objects", "download", "spawn"}
                       /\ hs[r].objects = <<>>
                       /\ hs[r].object_files = {})
    /\ [][(\E r \in Reqs : hs[r].kind \in FetchKinds)
            => UNCHANGED <<refs, objects, txs, blobs, wc, node, bc>>]_vars

\* an upload-pack request was answered on a ledger that has a ref and an
\* object, both still as they were
C26_Witness ==
    /\ hs[1].kind = "upload_pack" /\ Finished(1) /\ hs[1].result.ok
    /\ hs[1].object_files = {HashA}
    /\ refs = <<Ref(Main, HashA, TRUE)>>
    /\ objects = <<Object(HashA, Cid(HashA))>>
    /\ blobs = {Cid(HashA)} /\ txs = <<>>

\* the refs of its snapshot a handler writes into the scratch repository:
\* upload-pack the active ones, receive-pack all
ToMaterialize(kind, ref) == kind = "receive_pack" \/ ref.is_active

\* the scratch repository of the request holds every ref the handler is to
\* materialize from the ledger's refs, with its target, and the file of
\* every object of the ledger
Materialized(r) ==
    /\ hs[r].refs = get_refs
    /\ \A j \in 1..Len(hs[r].refs) :
          ToMaterialize(hs[r].kind, hs[r].refs[j])
          => /\ hs[r].refs[j].name \in DOMAIN hs[r].files
             /\ hs[r].files[hs[r].refs[j].name]
                  = hs[r].refs[j].data \o <<"\n">>
    /\ hs[r].objects = get_objects
    /\ \A k \in 1..Len(hs[r].objects) :
          hs[r].objects[k].hash \in hs[r].object_files

\* C27: in upload-pack and receive-pack the stateless-RPC executable is
\* spawned only on a scratch repository that holds every ref to be
\* materialized and every object get_objects() returned; a request that
\* failed at get_refs, get_objects, the decoding of a ref or the download
\* of an object has ended with an error (400) without having spawned it.
C27_NoPartialRepository ==
    /\ [](\A r \in Reqs :
            hs[r].kind \in {"upload_pack", "receive_pack"}
            => /\ hs[r].pc = "spawn" => Materialized(r)
               /\ (/\ Finished(r)
                   /\ hs[r].result.msg
                        \in {ErrLedgerRead, ErrFromUtf8, ErrDownload})
                  => /\ ~RpcRan(r)
                     /\ ~hs[r].result.ok
                     /\ hs[r].http.status = 400)
    /\ [][\A r \in Reqs :
            (~RpcRan(r) /\ RpcRan(r)')
            => /\ hs[r].pc = "spawn"
               /\ Materialized(r)]_vars

\* an upload-pack was answered from a scratch repository with both refs and
\* both objects of the ledger
C27_Witness ==
    /\ hs[1].kind = "upload_pack" /\ RpcRan(1) /\ Finished(1)
    /\ hs[1].result.ok
    /\ Len(hs[1].refs) = 2 /\ DOMAIN hs[1].files = {Main, TagV1}
    /\ Len(hs[1].objects) = 2 /\ hs[1].object_files = {HashA, HashB}

(***************************************************************************)
(* Blob store client (crates/onchain/src/ipfs.rs)                          *)
(*                                                                         *)
(* A payload is a sequence of bytes, one token per byte.  The node behind  *)
(* the API keeps blocks: /api/v0/add?pin=true&raw-leaves=true stores a     *)
(* payload of at most one chunk as one raw block, and a longer payload as  *)
(* raw leaves under a dag-pb root (the request names no chunker, so the    *)
(* node's default applies; ChunkSize stands for its 262144 bytes), and     *)
(* answers with the id of the root.  /api/v0/block/get answers with the    *)
(* bytes of the one block named, /api/v0/cat and the gateway with the      *)
(* file under it.  Every request may also fail.                            *)
(***************************************************************************)
NUL == "<00>"
MinObjectLen == 10
UploadAttempts == 3
DownloadRounds == 3
ChunkSize == 12
MaxUploads == 1

Position(content, b) ==
    IF \E i \in 1..Len(content) : content[i] = b
    THEN CHOOSE i \in 1..Len(content) :
            /\ content[i] = b
            /\ \A j \in 1..(i - 1) : content[j] # b
    ELSE 0

ErrHeaderFormat == <<"Invalid", "Git", "object", "header", "format">>
ErrNoNull ==
    <<"Invalid", "Git", "object", "format:", "missing", "null", "byte",
      "separator">>
ErrUtf8 == <<"invalid", "utf-8", "sequence">>

\* the object type and the data after the header "<type> <size>\0"
extract_git_object(content) ==
    LET null_pos == Position(content, NUL)
        header == SubSeq(content, 1, null_pos - 1)
        parts_len == Cardinality({i \in 1..Len(header) : header[i] = " "}) + 1
    IN  IF null_pos = 0 THEN Err(ErrNoNull)
        ELSE IF ~IsUtf8(header) THEN Err(ErrUtf8)
        ELSE IF parts_len # 2 THEN Err(ErrHeaderFormat)
        ELSE Ok(<<SubSeq(header, 1, Position(header, " ") - 1),
                  SubSeq(content, null_pos + 1, Len(content))>>)

\* the bytes put in the multipart form
upload_content(content) ==
    IF Len(content) > MinObjectLen
    THEN IF extract_git_object(content).ok THEN content ELSE content
    ELSE content

\* after an upload attempt but the last, and before a round but the first
upload_backoff_ms(attempt) == 1000 * Shl(1, attempt - 1)
\* the upload's expression at the head of a download round
download_backoff_ms_from_one(attempt) == 1000 * Shl(1, attempt - 1)

download_backoff_ms(attempt) == 1000 * Shl(1, attempt - 2)

\* the node's blocks; the id of a block is its hash
RawBlock(data) == [codec |-> "raw", data |-> data, links |-> <<>>]
DagNode(links) == [codec |-> "dag-pb", data |-> <<>>, links |-> links]
CidOf(block) == [hash |-> block]

RECURSIVE Chunks(_)
Chunks(content) ==
    IF Len(content) <= ChunkSize THEN <<content>>
    ELSE <<SubSeq(content, 1, ChunkSize)>>
         \o Chunks(SubSeq(content, ChunkSize + 1, Len(content)))

Leaves(content) ==
    [i \in 1..Len(Chunks(content)) |-> RawBlock(Chunks(content)[i])]

\* the root block add makes of a payload, and every block it stores
AddRoot(content) ==
    IF Len(content) <= ChunkSize THEN RawBlock(content)
    ELSE DagNode([i \in 1..Len(Leaves(content)) |->
                    CidOf(Leaves(content)[i])])

AddBlocks(content) ==
    {AddRoot(content)}
    \cup (IF Len(content) <= ChunkSize THEN {}
          ELSE {Leaves(content)[i] : i \in 1..Len(Leaves(content))})

RECURSIVE Concat(_)
Concat(seqs) == IF seqs = <<>> THEN <<>> ELSE Head(seqs) \o Concat(Tail(seqs))

\* block/get: the bytes of the block itself
block_get(cid) ==
    IF cid.hash.codec = "raw" THEN cid.hash.data
    ELSE <<"<dag-pb>">> \o [i \in 1..Len(cid.hash.links) |-> "<link>"]

\* cat, and the gateway: the file under the block
cat(cid) ==
    IF cid.hash.codec = "raw" THEN cid.hash.data
    ELSE Concat([i \in 1..Len(cid.hash.links) |->
                    cid.hash.links[i].hash.data])

Served(strategy, cid) ==
    IF strategy = "block" THEN block_get(cid) ELSE cat(cid)

Holds(cid) == cid.hash \in node

\* a short payload, a loose Git object, and a payload of more than a chunk
ShortPayload == <<"a", "b", "c">>
GitObject == <<"b", "l", "o", "b", " ", "4", NUL, "d", "a", "t", "a">>
LargePayload == [i \in 1..(ChunkSize + 1) |-> "z"]
Payloads == {ShortPayload, GitObject, LargePayload}

Strategies == {"block", "cat", "gateway"}

\* the strategy after a miss, "end" after the last of the round
next_strategy_cat_first(strategy, gateway) ==
    CASE strategy = "cat" -> "block"
      [] strategy = "block" -> IF gateway THEN "gateway" ELSE "end"
      [] strategy = "gateway" -> "end"

next_strategy(strategy, gateway) ==
    CASE strategy = "block" -> "cat"
      [] strategy = "cat" -> IF gateway THEN "gateway" ELSE "end"
      [] strategy = "gateway" -> "end"

ErrReadFile == <<"Failed", "to", "read", "file:">>
ErrUploadAttempts ==
    <<"Failed", "to", "upload", "file", "to", "IPFS", "after", "3",
      "attempts:">>
ErrCreateDirs == <<"Failed", "to", "create", "directories:">>
ErrCreateFile == <<"Failed", "to", "create", "file:">>
ErrWriteFile == <<"Failed", "to", "write", "file:">>
ErrDownloadAll ==
    <<"Failed", "to", "download", "from", "IPFS", "after", "all",
      "attempts">>

\* one request or one sleep of a call
Entry(what, outcome, ms) == [what |-> what, outcome |-> outcome, ms |-> ms]
File(data) == [exists |-> TRUE, data |-> data]

BlobReturn(c, result) == [c EXCEPT !.pc = "done", !.result = result]

\* the payloads the node holds
Stored == {content \in Payloads : AddRoot(content) \in node}

\* load_to_ipfs(file_path): the file is read
LoadBegin ==
    /\ bc.pc \in {"idle", "done"}
    /\ Cardinality(Stored) < MaxUploads
    /\ \E content \in Payloads, gateway \in BOOLEAN :
         bc' = [NoBlobCall EXCEPT !.op = "load", !.pc = "upload",
                                  !.content = content,
                                  !.gateway = gateway, !.attempt = 1]
    /\ UNCHANGED <<node, nonBlobVars>>

\* read(file_path) fails
LoadReadErr ==
    /\ bc.pc \in {"idle", "done"}
    /\ bc' = BlobReturn([NoBlobCall EXCEPT !.op = "load"], Err(ErrReadFile))
    /\ UNCHANGED <<node, nonBlobVars>>

\* an upload that counts a failed existence check as a failed attempt
AddOkVerified ==
    /\ bc.pc = "upload"
    /\ \E head \in (IF bc.gateway THEN {"success", "status", "error"}
                                  ELSE {"skipped"}) :
         LET sent == upload_content(bc.content)
             cid == CidOf(AddRoot(sent))
             entries == <<Entry("add", "success", 0), Entry("head", head, 0)>>
         IN  /\ node' = node \cup AddBlocks(sent)
             /\ bc' = IF head \in {"success", "skipped"}
                      THEN [BlobReturn(bc, Ok(cid)) EXCEPT
                              !.cid = cid, !.log = @ \o entries]
                      ELSE IF bc.attempt = UploadAttempts
                      THEN [BlobReturn(bc, Err(ErrUploadAttempts)) EXCEPT
                              !.log = @ \o entries]
                      ELSE [bc EXCEPT !.attempt = @ + 1, !.log = @ \o entries]
    /\ UNCHANGED nonBlobVars

\* upload_to_ipfs returns the content id; the HEAD request to the gateway,
\* whatever it gives, changes nothing
AddOk ==
    /\ bc.pc = "upload"
    /\ \E head \in (IF bc.gateway THEN {"success", "status", "error"}
                                  ELSE {"skipped"}) :
         LET sent == upload_content(bc.content)
             cid == CidOf(AddRoot(sent))
         IN  /\ node' = node \cup AddBlocks(sent)
             /\ bc' = [BlobReturn(bc, Ok(cid)) EXCEPT
                         !.cid = cid,
                         !.log = @ \o <<Entry("add", "success", 0),
                                        Entry("head", head, 0)>>]
    /\ UNCHANGED nonBlobVars

\* upload_to_ipfs fails: fatal on the last attempt, a sleep otherwise
AddErr ==
    /\ bc.pc = "upload"
    /\ bc' = IF bc.attempt = UploadAttempts
             THEN [BlobReturn(bc, Err(ErrUploadAttempts)) EXCEPT
                     !.log = Append(@, Entry("add", "error", 0))]
             ELSE [bc EXCEPT
                     !.attempt = @ + 1,
                     !.log = @ \o <<Entry("add", "error", 0),
                                    Entry("sleep", "",
                                          upload_backoff_ms(bc.attempt))>>]
    /\ UNCHANGED <<node, nonBlobVars>>

\* download_from_ipfs(ipfs_hash, file_path): the parent directories exist
DownloadBegin ==
    /\ bc.pc \in {"idle", "done"}
    /\ \E content \in Payloads, gateway \in BOOLEAN :
         bc' = [NoBlobCall EXCEPT !.op = "download", !.pc = "round",
                                  !.cid = CidOf(AddRoot(content)),
                                  !.gateway = gateway, !.attempt = 1]
    /\ UNCHANGED <<node, nonBlobVars>>

\* create_dir_all(parent) fails
DownloadDirErr ==
    /\ bc.pc \in {"idle", "done"}
    /\ bc' = BlobReturn([NoBlobCall EXCEPT !.op = "download"],
                        Err(ErrCreateDirs))
    /\ UNCHANGED <<node, nonBlobVars>>

\* the top of a round: the sleep of every round but the first
RoundBegin ==
    /\ bc.pc = "round"
    /\ bc' = [bc EXCEPT
                !.pc = "block",
                !.log = IF bc.attempt > 1
                        THEN Append(@, Entry("sleep", "",
                                             download_backoff_ms(bc.attempt)))
                        ELSE @]
    /\ UNCHANGED <<node, nonBlobVars>>

\* a loop of one round more
FetchMissOneMoreRound ==
    /\ bc.pc \in Strategies
    /\ \E why \in {"status", "error"} :
         LET c == [bc EXCEPT !.log = Append(@, Entry(bc.pc, why, 0))]
             next == next_strategy(bc.pc, bc.gateway)
         IN  bc' = IF next # "end" THEN [c EXCEPT !.pc = next]
                   ELSE IF bc.attempt <= DownloadRounds
                   THEN [c EXCEPT !.pc = "round", !.attempt = @ + 1]
                   ELSE BlobReturn(c, Err(ErrDownloadAll))
    /\ UNCHANGED <<node, nonBlobVars>>

\* a request that fails, answers with a status that is no success, or whose
\* body cannot be read: None, and the next strategy or round, or the end
FetchMiss ==
    /\ bc.pc \in Strategies
    /\ \E why \in {"status", "error"} :
         LET c == [bc EXCEPT !.log = Append(@, Entry(bc.pc, why, 0))]
             next == next_strategy(bc.pc, bc.gateway)
         IN  bc' = IF next # "end" THEN [c EXCEPT !.pc = next]
                   ELSE IF bc.attempt < DownloadRounds
                   THEN [c EXCEPT !.pc = "round", !.attempt = @ + 1]
                   ELSE BlobReturn(c, Err(ErrDownloadAll))
    /\ UNCHANGED <<node, nonBlobVars>>

\* a success status with a readable body: File::create, write_all, return
FetchHit ==
    /\ bc.pc \in Strategies
    /\ Holds(bc.cid)
    /\ \E fs \in {"ok", "create", "write"} :
         LET c == [bc EXCEPT !.log = Append(@, Entry(bc.pc, "success", 0))]
             body == Served(bc.pc, bc.cid)
         IN  bc' = CASE fs = "ok" ->
                          [BlobReturn(c, Ok(<<>>)) EXCEPT !.file = File(body)]
                     [] fs = "create" -> BlobReturn(c, Err(ErrCreateFile))
                     [] fs = "write" ->
                          [BlobReturn(c, Err(ErrWriteFile)) EXCEPT
                             !.file = File(<<>>)]
    /\ UNCHANGED <<node, nonBlobVars>>

InitBlob ==
    /\ RegistryEmpty /\ PumpIdle /\ LedgerEmpty /\ WriteIdle /\ HandlersIdle
    /\ BlobIdle
    /\ PathIdle

NextBlob ==
    \/ LoadBegin
    \/ LoadReadErr
    \/ AddOk
    \/ AddErr
    \/ DownloadBegin
    \/ DownloadDirErr
    \/ RoundBegin
    \/ FetchMiss
    \/ FetchHit

SpecBlob == InitBlob /\ [][NextBlob]_vars

\* C14: a download that succeeds for the content id an upload of payload B
\* returned leaves exactly B in the destination file, whichever strategy
\* served it
C14_RoundTrip ==
    \A content \in Payloads :
        /\ bc.op = "download" /\ bc.pc = "done" /\ bc.result.ok
        /\ bc.cid = CidOf(AddRoot(upload_content(content)))
        => bc.file = File(content)

\* the requests of the download so far, without the sleeps
Fetches == SelectSeq(bc.log, LAMBDA e : e.what \in Strategies)

StrategyOrder ==
    IF bc.gateway THEN <<"block", "cat", "gateway">> ELSE <<"block", "cat">>

\* C15: the requests of a download follow the order block, cat, gateway
\* round after round; a request answered with a success status and a
\* readable body is the last thing the call does before it writes the
\* destination and returns: the file then holds that body, and no later
\* strategy, round or sleep follows.  A block request answered with a
\* status that is no success and a cat request that succeeds end the call
\* in its first round, without any sleep, with the body of cat in the file
C15_FirstSuccessWins ==
    bc.op = "download" =>
        /\ \A i \in 1..Len(Fetches) :
               Fetches[i].what
                   = StrategyOrder[((i - 1) % Len(StrategyOrder)) + 1]
        /\ \A i \in 1..Len(bc.log) :
               bc.log[i].outcome = "success" =>
                   /\ i = Len(bc.log)
                   /\ bc.pc = "done"
                   /\ bc.result.ok
                        => bc.file = File(Served(bc.log[i].what, bc.cid))
                   /\ ~bc.result.ok
                        => bc.result.msg \in {ErrCreateFile, ErrWriteFile}
        /\ bc.file.exists
              => bc.log # <<>> /\ bc.log[Len(bc.log)].outcome = "success"
        /\ Fetches = <<Entry("block", "status", 0), Entry("cat", "success", 0)>>
              => bc.log = Fetches /\ bc.attempt = 1 /\ bc.pc = "done"

\* the block request got a status that is no success, cat answered, and the
\* call returned success with the Git object in the file, in the first round
C15_Witness ==
    /\ bc.op = "download" /\ bc.pc = "done" /\ bc.result.ok
    /\ bc.log = <<Entry("block", "status", 0), Entry("cat", "success", 0)>>
    /\ bc.cid = CidOf(AddRoot(GitObject))
    /\ bc.file = File(GitObject)
    /\ bc.attempt = 1

\* the target of the last active entry of the list with this name
LastActiveTarget(list, ref_name) ==
    LET at == {k \in 1..Len(list) :
                 list[k].name = ref_name /\ list[k].is_active}
        last == CHOOSE k \in at : \A j \in at : j <= k
    IN  list[last].data

\* C38: in a scratch repository whose refs are materialized, the file of a
\* ref name that has an active entry in get_refs() holds the target of the
\* last active entry with that name
C38_LastActiveWins ==
    \A r \in Reqs :
        RefsSetUp(r) =>
            \A k \in 1..Len(hs[r].refs) :
                hs[r].refs[k].is_active =>
                    /\ hs[r].refs[k].name \in DOMAIN hs[r].files
                    /\ hs[r].files[hs[r].refs[k].name]
                         = LastActiveTarget(hs[r].refs, hs[r].refs[k].name)
                               \o <<LF>>

\* add_refs was called by the request, or a batch of refs was submitted
AddRefsBegun(r) ==
    \/ wc[r].op = "add_refs"
    \/ hs[r].pc \in {"add_refs", "verify"}
    \/ \E k \in 1..Len(txs) : txs[k].op = "add_refs"

\* C37: once add_refs is called, every new object of the harvest has been
\* uploaded and, if there was any, its add_objects batch was submitted
\* before any batch of refs; the request reaches the collection of its refs
\* only from an add_objects call that returned success or from a harvest
\* without new objects; a failed upload or a failed add_objects ends the
\* request with that error, and then add_refs was never called
C37_ObjectsBeforeRefs ==
    /\ [](hs[1].kind = "receive_pack" =>
            /\ AddRefsBegun(1) =>
                  /\ hs[1].pc \in {"add_refs", "verify", "done"}
                  /\ hs[1].object_hashes = hs[1].objects_to_upload
                  /\ \A k \in 1..Len(hs[1].objects_to_upload) :
                        Cid(hs[1].objects_to_upload[k]) \in blobs
                  /\ hs[1].objects_to_upload # <<>> =>
                        \E k \in 1..Len(txs) :
                            /\ txs[k].op = "add_objects"
                            /\ txs[k].names = hs[1].object_hashes
                            /\ \A j \in 1..Len(txs) :
                                  txs[j].op = "add_refs" => k < j
            /\ (Failed_with(1, ErrUploadObject)
                  \/ Failed_with(1, ErrStoreObjects)) => ~AddRefsBegun(1))
    /\ [][ /\ (hs[1].pc # "collect_refs" /\ hs'[1].pc = "collect_refs") =>
                \/ /\ hs[1].pc = "add_objects"
                   /\ wc[1].op = "add_objects"
                   /\ wc[1].pc = "returned"
                   /\ wc[1].result.ok
                \/ /\ hs[1].pc = "upload"
                   /\ hs[1].objects_to_upload = <<>>
           /\ (wc[1].op # "add_refs" /\ wc'[1].op = "add_refs") =>
                hs[1].pc = "collect_refs"
           /\ (hs[1].pc = "add_objects" /\ hs'[1].pc # "add_objects"
                 /\ ~wc[1].result.ok) =>
                Failed_with(1, ErrStoreObjects)'
           /\ (hs[1].pc = "upload" /\ Finished(1)') =>
                Failed_with(1, ErrUploadObject)'
         ]_vars

\* the batch of refs was submitted after the batch with the new object
C37_Witness ==
    /\ hs[1].kind = "receive_pack"
    /\ hs[1].object_hashes = <<HashB>>
    /\ Len(txs) = 2
    /\ txs[1].op = "add_objects" /\ txs[1].names = <<HashB>>
    /\ txs[2].op = "add_refs"

\* the steps of a call in progress: every await of load_to_ipfs and
\* download_from_ipfs (a request under the client's timeout, a sleep, a file
\* operation) returns
BlobStep == AddOk \/ AddErr \/ RoundBegin \/ FetchMiss \/ FetchHit

SpecBlobLive == SpecBlob /\ WF_vars(BlobStep)

Sleeps == SelectSeq(bc.log, LAMBDA e : e.what = "sleep")
Adds == SelectSeq(bc.log, LAMBDA e : e.what = "add")
Misses == SelectSeq(Fetches, LAMBDA e : e.outcome # "success")

\* C32: an upload makes at most 3 attempts and a download at most 3 rounds;
\* the first thing either does is a request and the last thing it does is
\* no sleep; a sleep follows a failed attempt (upload) or the last miss of a
\* round (download) and is followed by the next attempt or round; the n-th
\* sleep of either call is 1000 ms * 2^(n-1): 1000 ms, then 2000 ms, and
\* there is no third
C32_BlobBackoff ==
    /\ bc.attempt <= 3
    /\ Len(Adds) <= UploadAttempts
    /\ Len(Sleeps) <= 2
    /\ \A n \in 1..Len(Sleeps) : Sleeps[n].ms = 1000 * Pow2(n - 1)
    /\ Len(Sleeps) >= 1 => Sleeps[1].ms = 1000
    /\ Len(Sleeps) >= 2 => Sleeps[2].ms = 2000
    /\ bc.log # <<>> => bc.log[1].what # "sleep"
    /\ bc.pc = "done" /\ bc.log # <<>> => bc.log[Len(bc.log)].what # "sleep"
    /\ \A i \in 1..Len(bc.log) :
          bc.log[i].what = "sleep" =>
              /\ i > 1
              /\ bc.log[i - 1].what # "sleep"
              /\ bc.log[i - 1].outcome # "success"
              /\ i < Len(bc.log) => bc.log[i + 1].what \in {"add", "block"}
    /\ bc.op = "load" /\ bc.pc = "upload" =>
          /\ Len(Adds) = bc.attempt - 1
          /\ Len(Sleeps) = bc.attempt - 1
    /\ bc.op = "load" /\ bc.pc = "done" /\ bc.log # <<>> =>
          Len(Sleeps) = Len(Adds) - 1
    /\ bc.op = "download" /\ bc.pc \in Strategies =>
          Len(Sleeps) = bc.attempt - 1
    /\ bc.op = "download" /\ bc.pc = "round" =>
          Len(Sleeps) = (IF bc.attempt = 1 THEN 0 ELSE bc.attempt - 2)
    /\ bc.op = "download" /\ bc.pc = "done" /\ bc.log # <<>> =>
          Len(Sleeps) = bc.attempt - 1

\* an upload whose first two attempts failed and whose third succeeded
C32_Witness ==
    /\ bc.op = "load" /\ bc.pc = "done" /\ bc.result.ok
    /\ Len(Adds) = 3
    /\ Sleeps = <<Entry("sleep", "", 1000), Entry("sleep", "", 2000)>>

\* C33: an upload attempt that returned a content id is the last attempt of
\* the call: what follows is the existence check alone (skipped when no
\* gateway is configured), and whatever it gives the call has returned
\* success with the content id of what was sent
C33_GatewayCheckIgnored ==
    bc.op = "load" =>
        /\ \A i \in 1..Len(bc.log) :
              bc.log[i].what = "add" /\ bc.log[i].outcome = "success" =>
                  /\ i = Len(bc.log) - 1
                  /\ bc.log[i + 1].what = "head"
                  /\ bc.log[i + 1].outcome = "skipped" <=> ~bc.gateway
                  /\ bc.pc = "done"
                  /\ bc.result
                       = Ok(CidOf(AddRoot(upload_content(bc.content))))
                  /\ Holds(bc.result.value)
        /\ \A i \in 1..Len(bc.log) :
              bc.log[i].what = "head" =>
                  i > 1 /\ bc.log[i - 1] = Entry("add", "success", 0)
        /\ bc.pc = "done" /\ ~bc.result.ok /\ bc.log # <<>> =>
              \A i \in 1..Len(bc.log) : bc.log[i].what # "head"

\* the existence check failed on the network after the first attempt had
\* returned a content id
C33_Witness ==
    /\ bc.op = "load" /\ bc.pc = "done" /\ bc.result.ok
    /\ bc.gateway
    /\ bc.log = <<Entry("add", "success", 0), Entry("head", "error", 0)>>

C34_Bounded ==
    bc.op = "download" =>
        /\ bc.attempt <= DownloadRounds
        /\ Len(Fetches) <= 9
        /\ ~bc.gateway => Len(Fetches) <= 6
        /\ \A i \in 1..Len(Fetches) :
              /\ Fetches[i].what
                     = StrategyOrder[((i - 1) % Len(StrategyOrder)) + 1]
              /\ i < Len(Fetches) => Fetches[i].outcome # "success"
        /\ bc.pc = "done" =>
              /\ bc.result = Err(ErrDownloadAll)
                   <=> /\ Len(Fetches) = DownloadRounds * Len(StrategyOrder)
                       /\ Misses = Fetches
              /\ bc.result = Err(ErrDownloadAll) => bc.file = NoFile
              /\ bc.result.ok =>
                    /\ Fetches # <<>>
                    /\ Fetches[Len(Fetches)].outcome = "success"

\* C34: a download in progress returns; it makes at most 3 rounds and 9
\* requests, 6 without a gateway; a miss is followed by the next strategy of
\* the order and nothing follows a hit; the call returns the download-failed
\* error exactly when it has made every request of 3 rounds and each was a
\* miss, and then the destination file was not created
C34_DownloadTerminates ==
    /\ []C34_Bounded
    /\ (bc.op = "download" /\ bc.pc # "done") ~> (bc.pc = "done")

\* every request of three rounds missed, with a gateway configured
C34_Witness ==
    /\ bc.op = "download" /\ bc.pc = "done"
    /\ bc.gateway
    /\ bc.result = Err(ErrDownloadAll)
    /\ Len(Fetches) = 9
    /\ bc.file = NoFile

(***************************************************************************)
(* The path of a loose object (get_object_path, git_upload_pack.rs) and the *)
(* hash the harvest of receive-pack makes of a path.  A path is the        *)
(* sequence of its components below the scratch directory, a component a   *)
(* sequence of characters.                                                 *)
(***************************************************************************)
\* the longest of the short hashes tried, next to the 40-character ones
MaxShortHash == 3

HashChars == {"a", "b", "c"}
ShortHashes ==
    UNION {[1..n -> HashChars] : n \in 1..MaxShortHash}
LedgerHashes == ShortHashes \cup {HashA, HashB}

ObjectsDir == <<"o", "b", "j", "e", "c", "t", "s">>

\* get_object_path(repo_path, hash), below repo_path
get_object_path(hash) ==
    IF Len(hash) < 2 THEN <<ObjectsDir, hash>>
    ELSE <<ObjectsDir, SubSeq(hash, 1, 2), SubSeq(hash, 3, Len(hash))>>

\* format!("{}{}", obj_dir_name, obj_file_name): the name of the file's
\* parent directory, then the file's name
obj_hash(object_path) ==
    object_path[Len(object_path) - 1] \o object_path[Len(object_path)]

\* a path whose last component is empty names a directory: File::create
\* fails on it
IsFilePath(object_path) == object_path[Len(object_path)] # <<>>

\* the download loop comes to an object of the ledger with this hash
LooseBegin ==
    /\ loose.pc = "idle"
    /\ \E hash \in LedgerHashes :
         loose' = [NoLoose EXCEPT !.pc = "download", !.hash = hash]
    /\ UNCHANGED <<registryVars, pumpVars, ledgerVars, wc, blobs, hs,
                   blobVars>>

\* download_from_ipfs(ipfs_url, objects_dir.join(get_object_path(..)))
\* writes the file
LooseDownloadOk ==
    /\ loose.pc = "download"
    /\ IsFilePath(get_object_path(loose.hash))
    /\ loose' = [loose EXCEPT !.pc = "stored",
                              !.path = get_object_path(loose.hash)]
    /\ UNCHANGED <<registryVars, pumpVars, ledgerVars, wc, blobs, hs,
                   blobVars>>

\* download_from_ipfs fails (always so when the path names a directory):
\* the handler returns the error
LooseDownloadErr ==
    /\ loose.pc = "download"
    /\ loose' = [loose EXCEPT !.pc = "failed"]
    /\ UNCHANGED <<registryVars, pumpVars, ledgerVars, wc, blobs, hs,
                   blobVars>>

\* the harvest's walk comes to the file
LooseHarvest ==
    /\ loose.pc = "stored"
    /\ loose' = [loose EXCEPT !.pc = "harvested",
                              !.obj_hash = obj_hash(loose.path)]
    /\ UNCHANGED <<registryVars, pumpVars, ledgerVars, wc, blobs, hs,
                   blobVars>>

InitPath ==
    /\ RegistryEmpty /\ PumpIdle /\ LedgerEmpty /\ WriteIdle /\ HandlersIdle
    /\ BlobIdle
    /\ PathIdle

NextPath ==
    \/ LooseBegin
    \/ LooseDownloadOk
    \/ LooseDownloadErr
    \/ LooseHarvest

SpecPath == InitPath /\ [][NextPath]_vars

\* the first n characters of a string, and what follows them
Take(str, n) == SubSeq(str, 1, IF Len(str) < n THEN Len(str) ELSE n)
Drop(str, n) == SubSeq(str, n + 1, Len(str))

\* C40: an object of the ledger with hash h is stored at
\* objects/h[0:2]/h[2:], and the hash the harvest makes of that path is h
C40_PathRoundTrip ==
    loose.pc \in {"stored", "harvested"} =>
        /\ loose.path
             = <<ObjectsDir, Take(loose.hash, 2), Drop(loose.hash, 2)>>
        /\ loose.pc = "harvested" => loose.obj_hash = loose.hash

(***************************************************************************)
(* The stateless-RPC invocation of the Git executable                      *)
(*                                                                         *)
(*   let mut child = cmd.spawn()?;                                         *)
(*   if let Some(mut stdin) = child.stdin.take() {                         *)
(*       stdin.write_all(&body_bytes).await?;                              *)
(*   }                                                                     *)
(*   if let Some(mut stdout) = child.stdout.take() {                       *)
(*       stdout.read_to_end(&mut response).await?;                         *)
(*   }                                                                     *)
(*   let status = child.wait().await?;                                     *)
(*                                                                         *)
(* Sizes are counted in chunks.  The child is a black box: it reads its    *)
(* stdin, writes its stdout and exits in an order of its own; what is      *)
(* fixed is that a write to a full pipe blocks until the other side reads. *)
(***************************************************************************)
\* the capacity of an OS pipe, the largest request body and the largest
\* output of the child, in chunks
PipeCap == 2
MaxBody == 4
MaxOutput == 4

\* after cmd.spawn(): body_bytes is some request body, both pipes are empty
InitPump ==
    /\ RegistryEmpty
    /\ BlobIdle
    /\ PathIdle
    /\ LedgerEmpty
    /\ WriteIdle
    /\ HandlersIdle
    /\ pumpPc = "write_all"
    /\ toWrite \in 0..MaxBody
    /\ stdinPipe = 0
    /\ stdoutPipe = 0
    /\ childPc = "running"
    /\ childWritten = 0
    /\ response = 0

\* write_all moves one more chunk into the stdin pipe; it waits while the
\* pipe is full
StdinWrite ==
    /\ pumpPc = "write_all"
    /\ toWrite > 0
    /\ childPc # "exited"
    /\ stdinPipe < PipeCap
    /\ toWrite' = toWrite - 1
    /\ stdinPipe' = stdinPipe + 1
    /\ UNCHANGED <<pumpPc, stdoutPipe, childPc, childWritten, response>>
    /\ UNCHANGED nonPumpVars

\* write_all fails once the child has closed its end (EPIPE): `?` returns
StdinWriteErr ==
    /\ pumpPc = "write_all"
    /\ toWrite > 0
    /\ childPc = "exited"
    /\ pumpPc' = "failed"
    /\ UNCHANGED <<toWrite, stdinPipe, stdoutPipe, childPc, childWritten,
                   response>>
    /\ UNCHANGED nonPumpVars

\* write_all has written everything: stdin is dropped (the child sees
\* end-of-file once the pipe is drained) and read_to_end starts
StdinDone ==
    /\ pumpPc = "write_all"
    /\ toWrite = 0
    /\ pumpPc' = "read_to_end"
    /\ UNCHANGED <<toWrite, stdinPipe, stdoutPipe, childPc, childWritten,
                   response>>
    /\ UNCHANGED nonPumpVars

\* read_to_end takes a chunk out of the stdout pipe
StdoutRead ==
    /\ pumpPc = "read_to_end"
    /\ stdoutPipe > 0
    /\ stdoutPipe' = stdoutPipe - 1
    /\ response' = response + 1
    /\ UNCHANGED <<pumpPc, toWrite, stdinPipe, childPc, childWritten>>
    /\ UNCHANGED nonPumpVars

\* read_to_end sees end-of-file: the pipe is empty and the child has closed it
StdoutEof ==
    /\ pumpPc = "read_to_end"
    /\ stdoutPipe = 0
    /\ childPc = "exited"
    /\ pumpPc' = "wait"
    /\ UNCHANGED <<toWrite, stdinPipe, stdoutPipe, childPc, childWritten,
                   response>>
    /\ UNCHANGED nonPumpVars

\* child.wait() returns the exit status
ChildWait ==
    /\ pumpPc = "wait"
    /\ childPc = "exited"
    /\ pumpPc' = "joined"
    /\ UNCHANGED <<toWrite, stdinPipe, stdoutPipe, childPc, childWritten,
                   response>>
    /\ UNCHANGED nonPumpVars

\* the child reads a chunk of its stdin
ChildRead ==
    /\ childPc = "running"
    /\ stdinPipe > 0
    /\ stdinPipe' = stdinPipe - 1
    /\ UNCHANGED <<pumpPc, toWrite, stdoutPipe, childPc, childWritten,
                   response>>
    /\ UNCHANGED nonPumpVars

\* the child calls write on its stdout
ChildBeginWrite ==
    /\ childPc = "running"
    /\ childWritten < MaxOutput
    /\ childPc' = "writing"
    /\ UNCHANGED <<pumpPc, toWrite, stdinPipe, stdoutPipe, childWritten,
                   response>>
    /\ UNCHANGED nonPumpVars

\* the child's write completes when the stdout pipe has room
ChildWrite ==
    /\ childPc = "writing"
    /\ stdoutPipe < PipeCap
    /\ stdoutPipe' = stdoutPipe + 1
    /\ childWritten' = childWritten + 1
    /\ childPc' = "running"
    /\ UNCHANGED <<pumpPc, toWrite, stdinPipe, response>>
    /\ UNCHANGED nonPumpVars

\* the child exits; what it had not read of its stdin is discarded
ChildExit ==
    /\ childPc = "running"
    /\ childPc' = "exited"
    /\ stdinPipe' = 0
    /\ UNCHANGED <<pumpPc, toWrite, stdoutPipe, childWritten, response>>
    /\ UNCHANGED nonPumpVars

NextPump ==
    \/ StdinWrite
    \/ StdinWriteErr
    \/ StdinDone
    \/ StdoutRead
    \/ StdoutEof
    \/ ChildWait
    \/ ChildRead
    \/ ChildBeginWrite
    \/ ChildWrite
    \/ ChildExit

SpecPump == InitPump /\ [][NextPump]_vars

\* the handler waits in write_all for room in the stdin pipe
HandlerBlockedWriting ==
    pumpPc = "write_all" /\ toWrite > 0 /\ stdinPipe = PipeCap

\* the child waits in write for room in the stdout pipe
ChildBlockedWriting == childPc = "writing" /\ stdoutPipe = PipeCap

\* C1: the request body is written to stdin concurrently with the reading
\* of stdout: in no reachable state is the handler blocked writing stdin
\* while the child is blocked writing stdout.
C1_NoPipeDeadlock == ~(HandlerBlockedWriting /\ ChildBlockedWriting)

=============================================================================
